---- MODULE Spec2Model ----
(***************************************************************************)
(* Model of the gold trading bot: the Breakout+ADX strategy object         *)
(* (src/src/breakout_adx_strategy.js) and the GoldTradingBot orchestration *)
(* (src/unnamed/part_000: scanMarket, checkRealtimeBreakout, executeTrade, *)
(* monitorPositions).                                                      *)
(*                                                                         *)
(* Units.  Prices are integers in cents, so $2010.00 is 201000 and the     *)
(* code's literals 1.00 and 0.50 are 100 and 50.  Time is an               *)
(* integer clock (Date.now()), positive; durations are in clock ticks.     *)
(* null is NULL for numbers and "none" for directions.                     *)
(***************************************************************************)
EXTENDS Integers, Sequences, FiniteSets, TLC

NULL == 0 - 1

\* Math.max(...[]) and Math.min(...[]) of an empty list
NegInfinity == 0 - 1000000
PosInfinity == 1000000

Max(S) == IF S = {} THEN NegInfinity ELSE CHOOSE x \in S : \A y \in S : y <= x
Min(S) == IF S = {} THEN PosInfinity ELSE CHOOSE x \in S : \A y \in S : x <= y
Abs(x) == IF x < 0 THEN 0 - x ELSE x

\* x || y on a nullable number (null and 0 are falsy)
OrElse(x, y) == IF x = NULL \/ x = 0 THEN y ELSE x

---------------------------------------------------------------------------
(* Program constants and the configuration instance                        *)

ADX_MIN == 20
CANDLE_ADX_OVERRIDE == 40
ADX_OVERRIDE_THRESHOLD == 35
\* maxOvershoot = 1.00 in evaluateH1Entry and in checkRealtimeMTFEntry
maxOvershoot == 100
maxOvershootRealtime == 100
\* the $0.50 bounce of checkRealtimeMTFEntry
bounceMin == 50
\* emaTolerance = 2.0
emaTolerance == 200

\* Config values: the defaults of class Config, except the lookback, the wait limit
\* and the EMA period of trend continuation, which are scaled down to the model's
\* short candle arrays.
BREAKOUT_LOOKBACK == 2
MTF_MAX_WAIT_CANDLES == 2
MTF_EMA_PERIOD == 20
MTF_PULLBACK_PIPS == 50
BREAKOUT_MAX_DISTANCE_FROM_LEVEL == 2000
BREAKOUT_RSI_MAX_LONG == 75
BREAKOUT_RSI_MIN_SHORT == 25
\* BREAKOUT_MIN_CANDLE_POSITION as a percentage (0.4)
BREAKOUT_MIN_CANDLE_POSITION == 40
TREND_CONTINUATION_ADX_MIN == 25
TREND_CONTINUATION_PULLBACK_EMA == 3

\* Durations, in clock ticks: the values are scaled to the model's clock, and only
\* their comparison with elapsed time matters.
\* BREAKOUT_CONFIRMATION_SECONDS * 1000
BREAKOUT_CONFIRMATION_SECONDS == 2
\* the literal 15 * 60 * 1000 (one M15 candle) of checkRealtimeMTFEntry
M15_MS == 1
\* TRADE_COOLDOWN_HOURS * 60 * 60 * 1000
TRADE_COOLDOWN_HOURS == 2

\* Config values of the position lifecycle (defaults), in pips
STOP_LOSS_PIPS == 350
BREAKOUT_STOP_LOSS_PIPS == 550
TRAILING_STOP_DISTANCE_PIPS == 150
TRAILING_ACTIVATION_PIPS == 200
BREAKOUT_TRAILING_ACTIVATION_PIPS == 350
ORDER_RETRY_WIDEN_SL_PIPS == 100
\* TAKE_PROFIT_RR, TAKE_PROFIT_1_RR and TAKE_PROFIT_2_RR (2.5, 1.5, 2.5) in tenths
TAKE_PROFIT_RR == 25
TAKE_PROFIT_1_RR == 15
TAKE_PROFIT_2_RR == 25

\* dollars to the model's prices
Usd(dollars) == dollars * 100

\* Config.pipsToPrice: pips * 0.01 dollars
pipsToPrice(pips) == Usd(pips) \div 100
\* Config.priceToPips: price / 0.01
priceToPips(price) == (price * 100) \div Usd(1)

VARIABLES
    config,             \* the boolean switches of Config, fixed at start
    breakoutStrategy,   \* the BreakoutADXStrategy object and its state file
    now,                \* Date.now()
    call,               \* the last call or gate: its arguments, the state before it, its result
    bot,                \* GoldTradingBot: activePositions, lastTradeCloseTime and their files
    broker,             \* the broker account: open and closed trades
    loops,              \* where the scan, real-time and monitor ticks stand, and their locals
    checks              \* history: the evaluations that have checked the pending
                        \* candle-close entry for an entry since it was created (0
                        \* when none is pending)

botVars == <<bot, broker, loops>>
vars == <<config, breakoutStrategy, now, call, bot, broker, loops, checks>>

---------------------------------------------------------------------------
(* BreakoutADXStrategy: state, saveState, loadState                        *)

StateKeys ==
    {"lastCandleTime", "lastSignal", "previousHigh", "previousLow",
     "pendingSignal", "pendingSignalTime", "pendingBreakoutPrice", "h1CandlesChecked",
     "realtimeBreakoutDirection", "realtimeBreakoutTime", "realtimeBreakoutPrice",
     "realtimeBreakoutLevel",
     "realtimeMTFPending", "realtimeMTFBreakoutPrice", "realtimeMTFTime",
     "realtimeMTFBestPullback"}

\* the fields as the constructor sets them
FreshState ==
    [lastCandleTime |-> NULL, lastSignal |-> "none",
     previousHigh |-> NULL, previousLow |-> NULL,
     pendingSignal |-> "none", pendingSignalTime |-> NULL,
     pendingBreakoutPrice |-> NULL, h1CandlesChecked |-> 0,
     realtimeBreakoutDirection |-> "none", realtimeBreakoutTime |-> NULL,
     realtimeBreakoutPrice |-> NULL, realtimeBreakoutLevel |-> NULL,
     realtimeMTFPending |-> "none", realtimeMTFBreakoutPrice |-> NULL,
     realtimeMTFTime |-> NULL, realtimeMTFBestPullback |-> NULL]

\* the strategy object before loadState: the fields plus the state file
NewStrategy(file) ==
    [k \in StateKeys \cup {"file"} |-> IF k = "file" THEN file ELSE FreshState[k]]

NoFile == [exists |-> FALSE, state |-> FreshState]

Fields(b) == [k \in StateKeys |-> b[k]]

saveState(b) == [b EXCEPT !.file = [exists |-> TRUE, state |-> Fields(b)]]

loadState(b) ==
    IF ~b.file.exists THEN b
    ELSE LET s == b.file.state IN
         [b EXCEPT
            !.lastCandleTime = s.lastCandleTime,
            !.lastSignal = s.lastSignal,
            !.previousHigh = s.previousHigh,
            !.previousLow = s.previousLow,
            !.pendingSignal = s.pendingSignal,
            !.pendingSignalTime = OrElse(s.pendingSignalTime, NULL),
            !.pendingBreakoutPrice = OrElse(s.pendingBreakoutPrice, NULL),
            !.h1CandlesChecked = OrElse(s.h1CandlesChecked, 0),
            !.realtimeBreakoutDirection = s.realtimeBreakoutDirection,
            !.realtimeBreakoutTime = OrElse(s.realtimeBreakoutTime, NULL),
            !.realtimeBreakoutPrice = OrElse(s.realtimeBreakoutPrice, NULL),
            !.realtimeBreakoutLevel = OrElse(s.realtimeBreakoutLevel, NULL),
            !.realtimeMTFPending = s.realtimeMTFPending,
            !.realtimeMTFBreakoutPrice = OrElse(s.realtimeMTFBreakoutPrice, NULL),
            !.realtimeMTFTime = OrElse(s.realtimeMTFTime, NULL),
            !.realtimeMTFBestPullback = OrElse(s.realtimeMTFBestPullback, NULL)]

clearPendingSignal(b) ==
    saveState([b EXCEPT !.pendingSignal = "none", !.pendingSignalTime = NULL,
                        !.pendingBreakoutPrice = NULL, !.h1CandlesChecked = 0])

clearRealtimeBreakout(b) ==
    saveState([b EXCEPT !.realtimeBreakoutDirection = "none", !.realtimeBreakoutTime = NULL,
                        !.realtimeBreakoutPrice = NULL, !.realtimeBreakoutLevel = NULL])

\* a clearRealtimeMTF that only saves
clearRealtimeMTFKeeps(b) == saveState(b)

clearRealtimeMTF(b) ==
    saveState([b EXCEPT !.realtimeMTFPending = "none", !.realtimeMTFBreakoutPrice = NULL,
                        !.realtimeMTFTime = NULL, !.realtimeMTFBestPullback = NULL])

hasRealtimeMTFPending(b) == b.realtimeMTFPending # "none"

---------------------------------------------------------------------------
(* Results.  Every result has the same fields; a field the code leaves out *)
(* of a result object holds its default here.  The reason texts are cut to *)
(* their fixed part; the entry improvement that the refiners print in the  *)
(* reason of an entry ("... improved by $4.00") is the field improvement.  *)

NoResult ==
    [signal |-> "none", reason |-> "", filters |-> <<>>, confidence |-> 0,
     pendingSignal |-> "none", pending |-> FALSE, pendingMTF |-> FALSE,
     direction |-> "none", entryPrice |-> NULL, improvement |-> NULL,
     isMTFEntry |-> FALSE, isRealtime |-> FALSE, isRealtimeMTF |-> FALSE,
     channelHigh |-> NULL, channelLow |-> NULL, isNull |-> FALSE]

\* evaluateH1Entry's "return null"
NullResult == [NoResult EXCEPT !.isNull = TRUE]


---------------------------------------------------------------------------
(* Market data handed to the strategy.                                     *)
(*   candle     [time, open, high, low, close]                             *)
(*   candles    a sequence of candles (completed bars, oldest first)       *)
(*   analysis   [adx, rsi, price]; adx and rsi may be NULL                 *)
(*   h1Candles  [isNull, length, last, ema]: the entry-timeframe bars, of  *)
(*              which the code reads the length, the last bar and the EMA  *)
(*              of the closes                                              *)
(* The exponential moving average is floating-point arithmetic over the    *)
(* closes; its value is given with the data and calculateEMA decides only  *)
(* whether there is one.                                                   *)

calculateEMA(length, period, value) == IF length < period THEN NULL ELSE value

\* candles.slice(start, end) with start < 0 and end = -1, as 1-based positions
SliceFrom(candles, negStart) == Max({Len(candles) + negStart, 0}) + 1
SliceTo(candles) == Len(candles) - 1

NullChannel == [isNull |-> TRUE, high |-> NULL, low |-> NULL]

\* a channel over the newest lookback bars, the newest bar among them
calculateDonchianChannelWithNewest(candles) ==
    IF Len(candles) < BREAKOUT_LOOKBACK THEN NullChannel
    ELSE LET lookbackCandles ==
                 {candles[i] : i \in SliceFrom(candles, 0 - BREAKOUT_LOOKBACK) .. Len(candles)}
         IN  [isNull |-> FALSE,
              high |-> Max({c.high : c \in lookbackCandles}),
              low |-> Min({c.low : c \in lookbackCandles})]

calculateDonchianChannel(candles) ==
    IF Len(candles) < BREAKOUT_LOOKBACK THEN NullChannel
    ELSE LET lookbackCandles ==
                 {candles[i] : i \in SliceFrom(candles, 0 - (BREAKOUT_LOOKBACK + 1)) .. SliceTo(candles)}
         IN  [isNull |-> FALSE,
              high |-> Max({c.high : c \in lookbackCandles}),
              low |-> Min({c.low : c \in lookbackCandles})]

---------------------------------------------------------------------------
(* evaluateH1Entry: the bar-counted Pullback Refiner                       *)

\* a chase guard that lets every entry through
chasingMoveNever(isLong, entryPrice, breakoutPrice) == FALSE

\* the chase guard of evaluateH1Entry
chasingMove(isLong, entryPrice, breakoutPrice) ==
    IF isLong THEN entryPrice > breakoutPrice + maxOvershoot
    ELSE entryPrice < breakoutPrice - maxOvershoot

evaluateH1Entry(b, h1Candles) ==
    IF b.pendingSignal = "none" \/ ~config.ENABLE_MTF THEN [b |-> b, r |-> NullResult]
    ELSE
    LET b1 == [b EXCEPT !.h1CandlesChecked = @ + 1] IN
    IF b1.h1CandlesChecked > MTF_MAX_WAIT_CANDLES
    THEN [b |-> clearPendingSignal(b1), r |-> NullResult]
    ELSE IF h1Candles.isNull \/ h1Candles.length < MTF_EMA_PERIOD + 5
    THEN [b |-> b1, r |-> NullResult]
    ELSE
    LET isLong == b1.pendingSignal = "LONG"
        breakoutPrice == b1.pendingBreakoutPrice
        pullbackTarget == IF isLong THEN breakoutPrice - pipsToPrice(MTF_PULLBACK_PIPS)
                          ELSE breakoutPrice + pipsToPrice(MTF_PULLBACK_PIPS)
        h1EMA == calculateEMA(h1Candles.length, MTF_EMA_PERIOD, h1Candles.ema)
        lastH1 == h1Candles.last
        isBullishH1 == lastH1.close > lastH1.open
        isBearishH1 == lastH1.close < lastH1.open
        pullbackLevel == IF isLong THEN Max({OrElse(h1EMA, 0), pullbackTarget})
                         ELSE Min({OrElse(h1EMA, PosInfinity), pullbackTarget})
        pricePulledBack == IF isLong THEN lastH1.low <= pullbackLevel
                           ELSE lastH1.high >= pullbackLevel
        entryFound == pricePulledBack /\ (IF isLong THEN isBullishH1 ELSE isBearishH1)
        entryPrice == lastH1.close
        improvement == IF isLong THEN breakoutPrice - entryPrice ELSE entryPrice - breakoutPrice
    IN
    IF entryFound /\ chasingMove(isLong, entryPrice, breakoutPrice)
    THEN [b |-> b1, r |-> NullResult]
    ELSE IF entryFound
    THEN [b |-> clearPendingSignal(b1),
          r |-> [NoResult EXCEPT !.signal = b1.pendingSignal, !.entryPrice = entryPrice,
                                 !.reason = "H1 pullback entry", !.improvement = improvement,
                                 !.confidence = 80, !.isMTFEntry = TRUE]]
    ELSE [b |-> b1, r |-> NullResult]

---------------------------------------------------------------------------
(* evaluateSetup: the candle-close Breakout Detector                       *)

\* a filter step that vetoes without looking at the candidate
applyFilterUnguarded(acc, failed, name) ==
    IF failed
    THEN [signal |-> "none", filters |-> Append(acc.filters, name)]
    ELSE acc

\* one step of the filter chain: "if (signal && <failed>) { filters.push(name); signal = null }"
applyFilter(acc, failed, name) ==
    IF acc.signal # "none" /\ failed
    THEN [signal |-> "none", filters |-> Append(acc.filters, name)]
    ELSE acc

\* pricePosition < minimum, with pricePosition = (close - low) / range, or 0.5 on an empty range
positionBelow(candle, pct) ==
    IF candle.high - candle.low > 0
    THEN (candle.close - candle.low) * 100 < pct * (candle.high - candle.low)
    ELSE 50 < pct
positionAbove(candle, pct) ==
    IF candle.high - candle.low > 0
    THEN (candle.close - candle.low) * 100 > pct * (candle.high - candle.low)
    ELSE 50 > pct

\* the LONG branch: the candidate after the five filters
longFilters(b, analysis, lastCandle) ==
    LET adx == analysis.adx
        rsi == analysis.rsi
        currentPrice == lastCandle.close
        isBullishCandle == lastCandle.close > lastCandle.open
        candleAdxOverride == adx # NULL /\ adx > CANDLE_ADX_OVERRIDE
        adxOverride == adx # NULL /\ adx > ADX_OVERRIDE_THRESHOLD
        distanceFromBreakout == currentPrice - b.previousHigh
        maxDistance == pipsToPrice(BREAKOUT_MAX_DISTANCE_FROM_LEVEL)
        f0 == [signal |-> "LONG", filters |-> <<>>]
        f1 == applyFilter(f0, adx # NULL /\ adx < ADX_MIN, "ADX (ranging market)")
        f2 == applyFilter(f1, ~isBullishCandle /\ ~candleAdxOverride, "candle")
        f3 == applyFilter(f2, rsi # NULL /\ rsi > BREAKOUT_RSI_MAX_LONG /\ ~adxOverride, "RSI")
        f4 == applyFilter(f3, distanceFromBreakout > maxDistance, "distance")
        f5 == applyFilter(f4, positionBelow(lastCandle, BREAKOUT_MIN_CANDLE_POSITION), "position")
    IN  f5

\* the SHORT branch
shortFilters(b, analysis, lastCandle) ==
    LET adx == analysis.adx
        rsi == analysis.rsi
        currentPrice == lastCandle.close
        isBearishCandle == lastCandle.close < lastCandle.open
        candleAdxOverride == adx # NULL /\ adx > CANDLE_ADX_OVERRIDE
        adxOverride == adx # NULL /\ adx > ADX_OVERRIDE_THRESHOLD
        distanceFromBreakout == b.previousLow - currentPrice
        maxDistance == pipsToPrice(BREAKOUT_MAX_DISTANCE_FROM_LEVEL)
        f0 == [signal |-> "SHORT", filters |-> <<>>]
        f1 == applyFilter(f0, adx # NULL /\ adx < ADX_MIN, "ADX (ranging market)")
        f2 == applyFilter(f1, ~isBearishCandle /\ ~candleAdxOverride, "candle")
        f3 == applyFilter(f2, rsi # NULL /\ rsi < BREAKOUT_RSI_MIN_SHORT /\ ~adxOverride, "RSI")
        f4 == applyFilter(f3, distanceFromBreakout > maxDistance, "distance")
        f5 == applyFilter(f4, positionAbove(lastCandle, 100 - BREAKOUT_MIN_CANDLE_POSITION), "position")
    IN  f5

\* confidence of a breakout signal
breakoutConfidence(adx, breakoutDistance) ==
    50 + (IF adx # NULL /\ adx > 25 THEN 10 ELSE 0) + (IF adx # NULL /\ adx > 30 THEN 10 ELSE 0)
       + (IF breakoutDistance > Usd(2) THEN 5 ELSE 0) + (IF breakoutDistance > Usd(5) THEN 5 ELSE 0)

\* the no-breakout branch: the trend-continuation signal, or "none"
trendContinuation(b, analysis, candles, ema) ==
    LET adx == analysis.adx
        lastCandle == candles[Len(candles)]
        currentPrice == lastCandle.close
        e == calculateEMA(Len(candles), TREND_CONTINUATION_PULLBACK_EMA, ema)
        isLong == b.lastSignal = "LONG"
        nearEMA == Abs(currentPrice - e) <= emaTolerance
        validPullback ==
            IF isLong
            THEN nearEMA /\ lastCandle.close > lastCandle.open /\ currentPrice >= e - emaTolerance
            ELSE nearEMA /\ lastCandle.close < lastCandle.open /\ currentPrice <= e + emaTolerance
    IN  IF config.ENABLE_TREND_CONTINUATION /\ b.lastSignal # "none"
           /\ adx # NULL /\ adx >= TREND_CONTINUATION_ADX_MIN
           /\ OrElse(e, NULL) # NULL /\ validPullback
        THEN b.lastSignal ELSE "none"

evaluateSetup(b, analysis, candles, h1Candles, ema) ==
    IF b.pendingSignal # "none" /\ config.ENABLE_MTF /\ ~h1Candles.isNull
    THEN LET e == evaluateH1Entry(b, h1Candles) IN
         IF ~e.r.isNull THEN e
         ELSE [b |-> e.b,
               r |-> [NoResult EXCEPT !.reason = "Waiting for H1 entry",
                                      !.pendingSignal = e.b.pendingSignal]]
    ELSE IF Len(candles) < BREAKOUT_LOOKBACK + 1
    THEN [b |-> b, r |-> [NoResult EXCEPT !.reason = "Insufficient candle data"]]
    ELSE
    LET lastCandle == candles[Len(candles)]
        currentCandleTime == lastCandle.time
        currentPrice == lastCandle.close
        channel == calculateDonchianChannel(candles)
        adx == analysis.adx
        isNewCandle == b.lastCandleTime # currentCandleTime
    IN
    IF channel.isNull
    THEN [b |-> b, r |-> [NoResult EXCEPT !.reason = "Unable to calculate Donchian channel"]]
    ELSE IF b.previousHigh = NULL \/ b.previousLow = NULL
    THEN [b |-> saveState([b EXCEPT !.previousHigh = channel.high, !.previousLow = channel.low,
                                    !.lastCandleTime = currentCandleTime]),
          r |-> [NoResult EXCEPT !.reason = "Initializing"]]
    ELSE IF ~isNewCandle
    THEN [b |-> b,
          r |-> [NoResult EXCEPT !.reason = "No new candle",
                                 !.channelHigh = channel.high, !.channelLow = channel.low]]
    ELSE
    LET bullishBreakout == currentPrice > b.previousHigh
        bearishBreakout == currentPrice < b.previousLow
        chain == IF bullishBreakout THEN longFilters(b, analysis, lastCandle)
                 ELSE IF bearishBreakout THEN shortFilters(b, analysis, lastCandle)
                 ELSE [signal |-> trendContinuation(b, analysis, candles, ema), filters |-> <<>>]
        signal == chain.signal
        filters == chain.filters
        reason == IF bullishBreakout THEN "Bullish breakout"
                  ELSE IF bearishBreakout THEN "Bearish breakout"
                  ELSE IF signal # "none" THEN "Trend continuation"
                  ELSE "No breakout"
        confidence ==
            IF bullishBreakout
            THEN (IF signal # "none" THEN breakoutConfidence(adx, currentPrice - b.previousHigh) ELSE 50)
            ELSE IF bearishBreakout
            THEN (IF signal # "none" THEN breakoutConfidence(adx, b.previousLow - currentPrice) ELSE 50)
            ELSE IF signal # "none" THEN 70 ELSE 50
        \* "Store current values"
        b1 == [b EXCEPT !.previousHigh = channel.high, !.previousLow = channel.low,
                        !.lastCandleTime = currentCandleTime]
    IN
    IF signal # "none" /\ config.ENABLE_MTF
    THEN LET b2 == saveState([b1 EXCEPT !.pendingSignal = signal,
                                        !.pendingSignalTime = currentCandleTime,
                                        !.pendingBreakoutPrice = currentPrice,
                                        !.h1CandlesChecked = 0])
             e == IF h1Candles.isNull THEN [b |-> b2, r |-> NullResult]
                  ELSE evaluateH1Entry(b2, h1Candles)
         IN  IF ~e.r.isNull THEN e
             ELSE [b |-> e.b,
                   r |-> [NoResult EXCEPT !.reason = "H4 breakout detected, waiting for H1 pullback entry",
                                          !.pendingSignal = signal,
                                          !.channelHigh = channel.high, !.channelLow = channel.low]]
    ELSE LET b2 == saveState(b1)
             b3 == IF signal # "none" THEN [b2 EXCEPT !.lastSignal = signal] ELSE b2
         IN  [b |-> b3,
              r |-> [NoResult EXCEPT !.signal = signal, !.reason = reason, !.filters = filters,
                                     !.confidence = confidence,
                                     !.channelHigh = channel.high, !.channelLow = channel.low]]

---------------------------------------------------------------------------
(* checkRealtimeMTFEntry: the continuous (time-bounded) Pullback Refiner   *)

chasingMoveRealtime(isLong, currentPrice, breakoutPrice) ==
    IF isLong THEN currentPrice > breakoutPrice + maxOvershootRealtime
    ELSE currentPrice < breakoutPrice - maxOvershootRealtime

checkRealtimeMTFEntry(b, currentPrice, t) ==
    IF b.realtimeMTFPending = "none"
    THEN [b |-> b, r |-> [NoResult EXCEPT !.reason = "No pending MTF signal"]]
    ELSE
    LET isLong == b.realtimeMTFPending = "LONG"
        breakoutPrice == b.realtimeMTFBreakoutPrice
        pullbackTarget == pipsToPrice(MTF_PULLBACK_PIPS)
        maxWaitMs == MTF_MAX_WAIT_CANDLES * M15_MS
        elapsed == t - b.realtimeMTFTime
    IN
    IF elapsed > maxWaitMs
    THEN [b |-> clearRealtimeMTF(b), r |-> [NoResult EXCEPT !.reason = "MTF timeout"]]
    ELSE
    LET best == IF b.realtimeMTFBestPullback = NULL THEN currentPrice
                ELSE IF isLong /\ currentPrice < b.realtimeMTFBestPullback THEN currentPrice
                ELSE IF ~isLong /\ currentPrice > b.realtimeMTFBestPullback THEN currentPrice
                ELSE b.realtimeMTFBestPullback
        b1 == [b EXCEPT !.realtimeMTFBestPullback = best]
        pullbackAmount == IF isLong THEN breakoutPrice - best ELSE best - breakoutPrice
        movingFavorably == IF isLong THEN currentPrice > best + bounceMin
                           ELSE currentPrice < best - bounceMin
        improvement == IF isLong THEN breakoutPrice - currentPrice ELSE currentPrice - breakoutPrice
    IN
    IF pullbackAmount < pullbackTarget
    THEN [b |-> b1, r |-> [NoResult EXCEPT !.pending = TRUE, !.reason = "Waiting for pullback"]]
    ELSE IF ~movingFavorably
    THEN [b |-> b1, r |-> [NoResult EXCEPT !.pending = TRUE,
                                           !.reason = "Pullback detected, waiting for price to move favorably"]]
    ELSE IF chasingMoveRealtime(isLong, currentPrice, breakoutPrice)
    THEN [b |-> b1, r |-> [NoResult EXCEPT !.pending = TRUE,
                                           !.reason = "Entry rejected - chasing move"]]
    ELSE [b |-> clearRealtimeMTF(b1),
          r |-> [NoResult EXCEPT !.signal = b1.realtimeMTFPending, !.reason = "Realtime MTF entry",
                                 !.confidence = 70, !.entryPrice = currentPrice,
                                 !.improvement = improvement, !.isRealtimeMTF = TRUE]]

---------------------------------------------------------------------------
(* checkRealtimeBreakout (strategy): the Real-Time Breakout Detector       *)

\* a wick filter that keeps the tracking record
wickFilterKeeps(b) == b

\* "No breakout - clear any pending tracking"
wickFilter(b) ==
    IF b.realtimeBreakoutDirection # "none" THEN clearRealtimeBreakout(b) ELSE b

\* filters that do not look at the price of the first detection
realtimeFiltersNoFakeout(b, direction, currentPrice, adx, rsi, distanceFromLevel) ==
    (IF adx # NULL /\ adx < ADX_MIN THEN <<"ADX (ranging market)">> ELSE <<>>)
    \o (IF distanceFromLevel > pipsToPrice(BREAKOUT_MAX_DISTANCE_FROM_LEVEL)
        THEN <<"distance">> ELSE <<>>)

\* the filters applied once the confirmation period has elapsed (all are evaluated)
realtimeFilters(b, direction, currentPrice, adx, rsi, distanceFromLevel) ==
    LET momentumValid == IF direction = "LONG" THEN currentPrice >= b.realtimeBreakoutPrice
                         ELSE currentPrice <= b.realtimeBreakoutPrice
        adxOverride == adx # NULL /\ adx > ADX_OVERRIDE_THRESHOLD
        maxDistance == pipsToPrice(BREAKOUT_MAX_DISTANCE_FROM_LEVEL)
    IN  (IF ~momentumValid THEN <<"Momentum fading">> ELSE <<>>)
        \o (IF adx # NULL /\ adx < ADX_MIN THEN <<"ADX (ranging market)">> ELSE <<>>)
        \o (IF direction = "LONG" /\ rsi # NULL /\ rsi > BREAKOUT_RSI_MAX_LONG /\ ~adxOverride
            THEN <<"RSI">> ELSE <<>>)
        \o (IF direction = "SHORT" /\ rsi # NULL /\ rsi < BREAKOUT_RSI_MIN_SHORT /\ ~adxOverride
            THEN <<"RSI">> ELSE <<>>)
        \o (IF distanceFromLevel > maxDistance THEN <<"distance">> ELSE <<>>)

\* a tracking record that keeps its start time when the direction changes
trackBreakoutKeepsTime(b, direction, currentPrice, breakoutLevel, t) ==
    saveState([b EXCEPT !.realtimeBreakoutDirection = direction,
                        !.realtimeBreakoutTime = IF @ = NULL THEN t ELSE @,
                        !.realtimeBreakoutPrice = currentPrice,
                        !.realtimeBreakoutLevel = breakoutLevel])

\* "New breakout or direction changed - start tracking"
trackBreakout(b, direction, currentPrice, breakoutLevel, t) ==
    saveState([b EXCEPT !.realtimeBreakoutDirection = direction,
                        !.realtimeBreakoutTime = t,
                        !.realtimeBreakoutPrice = currentPrice,
                        !.realtimeBreakoutLevel = breakoutLevel])

\* a pending entry that does not start the record of the best pullback
handOffToRefinerStale(b, direction, currentPrice, t) ==
    saveState([b EXCEPT !.realtimeMTFPending = direction,
                        !.realtimeMTFBreakoutPrice = currentPrice,
                        !.realtimeMTFTime = t])

\* "If MTF is enabled, store as pending signal and wait for pullback"
handOffToRefiner(b, direction, currentPrice, t) ==
    saveState([b EXCEPT !.realtimeMTFPending = direction,
                        !.realtimeMTFBreakoutPrice = currentPrice,
                        !.realtimeMTFTime = t,
                        !.realtimeMTFBestPullback = currentPrice])

strategyCheckRealtimeBreakout(b, currentPrice, adx, rsi, t) ==
    IF b.previousHigh = NULL \/ b.previousLow = NULL
    THEN [b |-> b, r |-> [NoResult EXCEPT !.reason = "No channel data yet"]]
    ELSE
    LET confirmationMs == BREAKOUT_CONFIRMATION_SECONDS
        bullishBreakout == currentPrice > b.previousHigh
        bearishBreakout == currentPrice < b.previousLow
    IN
    IF ~bullishBreakout /\ ~bearishBreakout
    THEN [b |-> wickFilter(b), r |-> [NoResult EXCEPT !.reason = "No breakout"]]
    ELSE
    LET direction == IF bullishBreakout THEN "LONG" ELSE "SHORT"
        breakoutLevel == IF bullishBreakout THEN b.previousHigh ELSE b.previousLow
        distanceFromLevel == IF bullishBreakout THEN currentPrice - b.previousHigh
                             ELSE b.previousLow - currentPrice
    IN
    IF b.realtimeBreakoutDirection = "none" \/ b.realtimeBreakoutDirection # direction
    THEN [b |-> trackBreakout(b, direction, currentPrice, breakoutLevel, t),
          r |-> [NoResult EXCEPT !.pending = TRUE, !.direction = direction,
                                 !.reason = "breakout detected, waiting for confirmation"]]
    ELSE IF t - b.realtimeBreakoutTime < confirmationMs
    THEN [b |-> b,
          r |-> [NoResult EXCEPT !.pending = TRUE, !.direction = direction,
                                 !.reason = "breakout pending confirmation"]]
    ELSE
    LET filters == realtimeFilters(b, direction, currentPrice, adx, rsi, distanceFromLevel) IN
    IF Len(filters) > 0
    THEN [b |-> clearRealtimeBreakout(b),
          r |-> [NoResult EXCEPT !.reason = "breakout confirmed but filtered", !.filters = filters]]
    ELSE
    LET b1 == clearRealtimeBreakout(b)
        b2 == [b1 EXCEPT !.lastSignal = direction]
    IN
    IF config.ENABLE_MTF
    THEN [b |-> handOffToRefiner(b2, direction, currentPrice, t),
          r |-> [NoResult EXCEPT !.pendingMTF = TRUE, !.direction = direction,
                                 !.reason = "breakout confirmed, waiting for pullback entry"]]
    ELSE [b |-> b2,
          r |-> [NoResult EXCEPT !.signal = direction, !.reason = "Realtime breakout",
                                 !.confidence = 60 + (IF adx # NULL /\ adx > 25 THEN 10 ELSE 0)
                                                   + (IF adx # NULL /\ adx > 30 THEN 10 ELSE 0)
                                                   + (IF distanceFromLevel > Usd(2) THEN 5 ELSE 0),
                                 !.entryPrice = currentPrice, !.isRealtime = TRUE]]

---------------------------------------------------------------------------
(* Market data of the model: a small set of bars around a channel near     *)
(* $2000-$2012, in dollars here and converted to cents by Bar.             *)

MaxBarTime == 2

Bar(t, o, h, l, c) == [time |-> t, open |-> Usd(o), high |-> Usd(h), low |-> Usd(l), close |-> Usd(c)]

\* older bars, which only feed the channel
LookbackBars == {Bar(0, 2004, 2010, 2000, 2006), Bar(0, 2006, 2012, 2004, 2008)}
\* a bar older than the lookback window, far outside every channel
StaleBar == Bar(0, 2020, 2030, 1980, 1990)

\* shapes of the newest bar
LastBars(t) ==
    {Bar(t, 2011, 2016, 2010, 2015),    \* closes above the channel, bullish, near its high
     Bar(t, 2016, 2017, 2010, 2015),    \* closes above, bearish body
     Bar(t, 2011, 2020, 2010, 2013),    \* closes above, in the lower part of its range
     Bar(t, 2012, 2036, 2011, 2035),    \* closes more than $20 above
     Bar(t, 2005, 2008, 2004, 2007),    \* inside, bullish
     Bar(t, 2007, 2008, 2004, 2005),    \* inside, bearish
     Bar(t, 1999, 2000, 1994, 1995),    \* closes below, bearish, near its low
     Bar(t, 1994, 1999, 1993, 1995)}    \* closes below, bullish body

Rep(n, a) == [i \in 1..n |-> a]

\* lookback windows: BREAKOUT_LOOKBACK bars
Windows == {Rep(BREAKOUT_LOOKBACK, a) : a \in LookbackBars}
MixedWindows ==
    {Rep(BREAKOUT_LOOKBACK - 1, a) \o <<c>> : a \in LookbackBars \cup {StaleBar}, c \in LookbackBars \cup {StaleBar}}

\* candle arrays: too short ones, a window and a newest bar, and one with an older bar
CandleInputs ==
    {Rep(n, a) : n \in 0..BREAKOUT_LOOKBACK, a \in LookbackBars}
    \cup {w \o <<l>> : w \in Windows, l \in UNION {LastBars(t) : t \in 0..MaxBarTime}}
    \cup {<<StaleBar>> \o Rep(BREAKOUT_LOOKBACK, Bar(0, 2004, 2010, 2000, 2006)) \o <<l>> : l \in LastBars(1)}

AnalysisInputs ==
    {[adx |-> a, rsi |-> 50, price |-> Usd(2010)] : a \in {NULL, 15, 30, 45}}
    \cup {[adx |-> a, rsi |-> r, price |-> Usd(2010)] : a \in {30, 37}, r \in {20, 80}}
    \cup {[adx |-> 30, rsi |-> NULL, price |-> Usd(2010)]}

NullH1 == [isNull |-> TRUE, length |-> 0, last |-> Bar(0, 0, 0, 0, 0), ema |-> NULL]

\* shapes of the newest entry-timeframe bar
H1Bars ==
    {Bar(0, 2012, 2015, 2011, 2014),    \* pulled back below 2014.50, bullish, closes below 2015
     Bar(0, 2013, 2018, 2013, 2017),    \* pulled back, bullish, closes more than $1 above 2015
     Bar(0, 2015, 2016, 2015, 2016),    \* bullish, low between 2014.50 and 2016
     Bar(0, 1997, 1998, 1995, 1996),    \* pulled back above 1995.50, bearish
     Bar(0, 1996, 1997, 1992, 1993)}    \* pulled back, bearish, closes more than $1 below 1995

H1Inputs ==
    IF ~config.ENABLE_MTF THEN {NullH1}
    ELSE {NullH1, [isNull |-> FALSE, length |-> 10, last |-> Bar(0, 2012, 2015, 2011, 2014), ema |-> NULL]}
         \cup {[isNull |-> FALSE, length |-> 30, last |-> h, ema |-> Usd(1990)] : h \in H1Bars}
         \cup {[isNull |-> FALSE, length |-> 30, last |-> h, ema |-> Usd(2016)] :
                 h \in {Bar(0, 2015, 2016, 2015, 2016), Bar(0, 1997, 1998, 1995, 1996)}}

\* the EMA of the closes of the primary-timeframe candles
EmaInputs == IF config.ENABLE_TREND_CONTINUATION THEN {Usd(2006), Usd(1980)} ELSE {Usd(2006)}

---------------------------------------------------------------------------
(* Calls of the strategy object by a caller that passes it market data:    *)
(* `call` keeps the arguments, the object before the call and the result   *)
(* until the caller drops them (Return).                                   *)

Idle == [op |-> "idle"]

NoPositions == [id \in {} |-> NULL]

\* a loop between two ticks
IdleLoop ==
    [pc |-> "idle", signal |-> "none", entryPrice |-> NULL, stopLoss |-> NULL,
     takeProfit1 |-> NULL, takeProfit2 |-> NULL, strategyName |-> "", reason |-> "",
     currentPrice |-> NULL, tradeId |-> NULL, fillPrice |-> NULL, orderStopLoss |-> NULL,
     snapshot |-> NoPositions, todo |-> <<>>]

\* the bot after construction with no data files, and an account without trades
InitBot ==
    /\ bot = [activePositions |-> NoPositions, lastTradeCloseTime |-> NULL,
              positionsFile |-> NoPositions, cooldownFile |-> NULL]
    /\ broker = [openTrades |-> NoPositions, closed |-> {}, orders |-> 0]
    /\ loops = [l \in {"scan", "realtime", "monitor"} |-> IdleLoop]

\* the switches of Config; the defaults are trailing stop and order retry on, staged
\* take-profit off
ConfigWith(mtf, continuation, stagedTP, retry) ==
    [ENABLE_MTF |-> mtf, ENABLE_TREND_CONTINUATION |-> continuation,
     ENABLE_STAGED_TP |-> stagedTP, ENABLE_TRAILING_STOP |-> TRUE, ENABLE_ORDER_RETRY |-> retry]

InitConfig ==
    config \in {ConfigWith(m, c, FALSE, TRUE) : m \in BOOLEAN, c \in BOOLEAN}

InitStrategy ==
    /\ InitConfig
    /\ breakoutStrategy = loadState(NewStrategy(NoFile))
    /\ now = 1
    /\ call = Idle
    /\ InitBot
    /\ checks = 0

\* the newest bar of a fetch is never older than the newest bar seen before
NotOlder(candles) ==
    IF Len(candles) = 0 \/ breakoutStrategy.lastCandleTime = NULL THEN TRUE
    ELSE candles[Len(candles)].time >= breakoutStrategy.lastCandleTime

\* the checks made for the pending entry, a call of evaluateSetup included: the
\* refiner counts a check when the wait budget is not used up; a call that creates
\* a pending entry starts the history, with the immediate check if the
\* entry-timeframe candles are there
checksAfter(b, h1Candles, r) ==
    IF b.pendingSignal # "none" /\ config.ENABLE_MTF /\ ~h1Candles.isNull
    THEN (IF b.h1CandlesChecked + 1 > MTF_MAX_WAIT_CANDLES THEN checks
          ELSE Min({checks + 1, MTF_MAX_WAIT_CANDLES + 1}))
    ELSE IF r.pendingSignal # "none" \/ r.isMTFEntry
    THEN (IF h1Candles.isNull \/ 1 > MTF_MAX_WAIT_CANDLES THEN 0 ELSE 1)
    ELSE checks

EvaluateSetupOn(candleSet, analysisSet, h1Set, emaSet) ==
    /\ call.op = "idle"
    /\ \E candles \in candleSet, analysis \in analysisSet, h1Candles \in h1Set, ema \in emaSet :
         LET e == evaluateSetup(breakoutStrategy, analysis, candles, h1Candles, ema) IN
         /\ NotOlder(candles)
         /\ breakoutStrategy' = e.b
         /\ checks' = IF e.b.pendingSignal = "none" THEN 0
                       ELSE checksAfter(breakoutStrategy, h1Candles, e.r)
         /\ call' = [op |-> "evaluateSetup", candles |-> candles, analysis |-> analysis,
                     h1Candles |-> h1Candles, ema |-> ema,
                     checks |-> checksAfter(breakoutStrategy, h1Candles, e.r),
                     before |-> breakoutStrategy, result |-> e.r]
    /\ UNCHANGED <<config, now, bot, broker, loops>>

CallEvaluateSetup == EvaluateSetupOn(CandleInputs, AnalysisInputs, H1Inputs, EmaInputs)

CallCalculateDonchianChannel ==
    /\ call.op = "idle"
    /\ \E candles \in CandleInputs \cup MixedWindows \cup {w \o <<StaleBar>> : w \in MixedWindows} :
         call' = [op |-> "calculateDonchianChannel", candles |-> candles,
                  before |-> breakoutStrategy, result |-> calculateDonchianChannel(candles)]
    /\ UNCHANGED <<config, breakoutStrategy, now, bot, broker, loops, checks>>

Return ==
    /\ call.op # "idle"
    /\ call' = Idle
    /\ UNCHANGED <<config, breakoutStrategy, now, bot, broker, loops, checks>>

\* process restart: a new object is constructed and loads the state file
Restart ==
    /\ call.op = "idle"
    /\ breakoutStrategy' = loadState(NewStrategy(breakoutStrategy.file))
    /\ UNCHANGED <<config, now, call, bot, broker, loops, checks>>

NextCandle == CallEvaluateSetup \/ CallCalculateDonchianChannel \/ Return \/ Restart

SpecCandle == InitStrategy /\ [][NextCandle]_vars

---------------------------------------------------------------------------
(* The strategy as the real-time loop drives it: price ticks go to the      *)
(* continuous refiner while a real-time entry is pending and to the         *)
(* real-time detector otherwise, and not at all while a candle-close entry  *)
(* is pending; candle scans go on in between.                               *)

MaxClock == 6

\* mid prices of the ticks
PriceInputs ==
    {Usd(1995), Usd(1998), Usd(2005), Usd(2008), Usd(2011), Usd(2012), Usd(2014), Usd(2015), Usd(2035)}

RealtimeAnalysisInputs ==
    {[adx |-> NULL, rsi |-> 50], [adx |-> 15, rsi |-> 50], [adx |-> 30, rsi |-> 50],
     [adx |-> 30, rsi |-> 80], [adx |-> 37, rsi |-> 80], [adx |-> 30, rsi |-> 20]}

\* the scans seen between ticks: a breakout bar of either side or an inside bar
ScanCandleInputs ==
    {Rep(BREAKOUT_LOOKBACK, Bar(0, 2004, 2010, 2000, 2006)) \o <<l>> :
        l \in UNION {{Bar(t, 2011, 2016, 2010, 2015), Bar(t, 2005, 2008, 2004, 2007),
                      Bar(t, 1999, 2000, 1994, 1995)} : t \in 1..MaxBarTime}}

\* the entry-timeframe bars seen with the scans, among them a deep pullback that
\* recovers: from 2015 down to 2008 and up to 2011, from 1995 up to 2002 and down to 1999
ScanH1Inputs ==
    H1Inputs \cup
    (IF ~config.ENABLE_MTF THEN {}
     ELSE {[isNull |-> FALSE, length |-> 30, last |-> h, ema |-> Usd(1990)] :
             h \in {Bar(0, 2009, 2012, 2008, 2011), Bar(0, 2001, 2002, 1998, 1999)}})

ScanEvaluateSetup ==
    EvaluateSetupOn(ScanCandleInputs, {[adx |-> 30, rsi |-> 50, price |-> Usd(2010)]}, ScanH1Inputs, {Usd(2006)})

CallCheckRealtimeBreakout ==
    /\ call.op = "idle"
    /\ breakoutStrategy.pendingSignal = "none"
    /\ ~hasRealtimeMTFPending(breakoutStrategy)
    /\ \E currentPrice \in PriceInputs, analysis \in RealtimeAnalysisInputs :
         LET e == strategyCheckRealtimeBreakout(breakoutStrategy, currentPrice,
                                                analysis.adx, analysis.rsi, now) IN
         /\ breakoutStrategy' = e.b
         /\ call' = [op |-> "checkRealtimeBreakout", currentPrice |-> currentPrice,
                     analysis |-> analysis, before |-> breakoutStrategy, result |-> e.r]
    /\ UNCHANGED <<config, now, bot, broker, loops, checks>>

CallCheckRealtimeMTFEntry ==
    /\ call.op = "idle"
    /\ breakoutStrategy.pendingSignal = "none"
    /\ hasRealtimeMTFPending(breakoutStrategy)
    /\ \E currentPrice \in PriceInputs :
         LET e == checkRealtimeMTFEntry(breakoutStrategy, currentPrice, now) IN
         /\ breakoutStrategy' = e.b
         /\ call' = [op |-> "checkRealtimeMTFEntry", currentPrice |-> currentPrice,
                     before |-> breakoutStrategy, result |-> e.r]
    /\ UNCHANGED <<config, now, bot, broker, loops, checks>>

\* time passes
Advance ==
    /\ call.op = "idle"
    /\ now < MaxClock
    /\ now' = now + 1
    /\ UNCHANGED <<config, breakoutStrategy, call, bot, broker, loops, checks>>

NextRealtime ==
    \/ ScanEvaluateSetup
    \/ CallCheckRealtimeBreakout
    \/ CallCheckRealtimeMTFEntry
    \/ Advance
    \/ Return
    \/ Restart

InitRealtime == InitStrategy /\ ~config.ENABLE_TREND_CONTINUATION

SpecRealtime == InitRealtime /\ [][NextRealtime]_vars

---------------------------------------------------------------------------
(* GoldTradingBot: gates, entry levels, the broker account, executeTrade   *)

MaxTrades == 2

\* a cooldown gate that is always open
checkTradeCooldownOff(b, t) == FALSE

checkTradeCooldown(b, t) ==
    IF b.lastTradeCloseTime = NULL \/ TRADE_COOLDOWN_HOURS <= 0 THEN FALSE
    ELSE LET cooldownMs == TRADE_COOLDOWN_HOURS
             elapsed == t - b.lastTradeCloseTime
             remaining == cooldownMs - elapsed
         IN  ~(remaining <= 0)

saveCooldown(b) == [b EXCEPT !.cooldownFile = b.lastTradeCloseTime]
savePositions(b) == [b EXCEPT !.positionsFile = b.activePositions]

calculateEntryLevels(analysis, signal, mtfEntryPrice) ==
    LET entryPrice == OrElse(mtfEntryPrice, analysis.price)
        isLong == signal = "LONG"
        stopDistance == pipsToPrice(BREAKOUT_STOP_LOSS_PIPS)
        stopLoss == IF isLong THEN entryPrice - stopDistance ELSE entryPrice + stopDistance
        riskDistance == Abs(entryPrice - stopLoss)
        tp1Distance == IF config.ENABLE_STAGED_TP THEN (riskDistance * TAKE_PROFIT_1_RR) \div 10
                       ELSE (riskDistance * TAKE_PROFIT_RR) \div 10
        tp2Distance == IF config.ENABLE_STAGED_TP THEN (riskDistance * TAKE_PROFIT_2_RR) \div 10
                       ELSE (riskDistance * TAKE_PROFIT_RR) \div 10
    IN  [entryPrice |-> entryPrice, stopLoss |-> stopLoss,
         takeProfit1 |-> IF isLong THEN entryPrice + tp1Distance ELSE entryPrice - tp1Distance,
         takeProfit2 |-> IF isLong THEN entryPrice + tp2Distance ELSE entryPrice - tp2Distance,
         riskPips |-> priceToPips(riskDistance)]

\* existingTrades.some(t => t.instrument === Config.TRADING_SYMBOL)
hasPosition(br) == DOMAIN br.openTrades # {}

Remove(f, id) == [i \in DOMAIN f \ {id} |-> f[i]]

\* the account fills a market order: a new open trade
PositionUnits == 10
fillOrder(br, signal, price, stopLoss) ==
    [br EXCEPT !.orders = @ + 1,
               !.openTrades = @ @@ ((br.orders + 1) :>
                   [signal |-> signal, price |-> price, stopLoss |-> stopLoss,
                    units |-> IF signal = "LONG" THEN PositionUnits ELSE 0 - PositionUnits,
                    takeProfit |-> NULL])]

\* client.modifyTrade(tradeId, stopLoss, null) on an open trade
modifyStop(br, id, stopLoss) ==
    IF id \in DOMAIN br.openTrades THEN [br EXCEPT !.openTrades[id].stopLoss = stopLoss] ELSE br

\* an order of the loop is on its way to the broker
InFlight(l) == loops[l].pc \in {"placeMarketOrder", "retryWiderSL", "retryNoSL"}

\* executeTrade up to its first await
executeTradeStart(lp, signal, levels, reason, strategyName) ==
    [lp EXCEPT !.pc = "placeMarketOrder", !.signal = signal, !.entryPrice = levels.entryPrice,
               !.stopLoss = levels.stopLoss, !.takeProfit1 = levels.takeProfit1,
               !.takeProfit2 = levels.takeProfit2, !.reason = reason,
               !.strategyName = strategyName, !.orderStopLoss = levels.stopLoss]

\* the tick from the position size to executeTrade, past the await of canOpenTrade
\* (the size and the risk manager's verdict are taken when the tick resumes)
toCanOpenTrade(lp, signal, levels, reason, strategyName) ==
    [lp EXCEPT !.pc = "canOpenTrade", !.signal = signal, !.entryPrice = levels.entryPrice,
               !.stopLoss = levels.stopLoss, !.takeProfit1 = levels.takeProfit1,
               !.takeProfit2 = levels.takeProfit2, !.reason = reason,
               !.strategyName = strategyName]

\* activePositions.set(...) and savePositions()
recordPosition(b, lp, id, fillPrice, stopLoss) ==
    savePositions([b EXCEPT !.activePositions = Remove(@, id) @@ (id :>
        [signal |-> lp.signal, strategyName |-> lp.strategyName, entryPrice |-> fillPrice,
         units |-> IF lp.signal = "LONG" THEN PositionUnits ELSE 0 - PositionUnits,
         stopLoss |-> stopLoss, takeProfit1 |-> lp.takeProfit1,
         takeProfit2 |-> lp.takeProfit2, tp1Hit |-> FALSE, bestPrice |-> fillPrice,
         currentStopLoss |-> stopLoss])])

\* executeTrade after a fill: the stop is re-anchored to the fill price if it is off by
\* more than a cent (an await of modifyTrade), then the position is recorded
afterFill(l, br, id, fillPrice, stopLoss) ==
    LET lp == loops[l]
        isLong == lp.signal = "LONG"
        stopDistance == pipsToPrice(BREAKOUT_STOP_LOSS_PIPS)
        correctStopLoss == IF isLong THEN fillPrice - stopDistance ELSE fillPrice + stopDistance
    IN  IF Abs(correctStopLoss - stopLoss) > 1
        THEN /\ loops' = [loops EXCEPT ![l] = [lp EXCEPT !.pc = "modifyTrade", !.tradeId = id,
                                                         !.fillPrice = fillPrice,
                                                         !.stopLoss = stopLoss,
                                                         !.orderStopLoss = correctStopLoss]]
             /\ broker' = br
             /\ bot' = bot
        ELSE /\ loops' = [loops EXCEPT ![l] = IdleLoop]
             /\ broker' = br
             /\ bot' = recordPosition(bot, lp, id, fillPrice, stopLoss)

\* prices the account fills an order at
FillPrices(lp) == {lp.entryPrice, lp.entryPrice + Usd(1)}

\* the retry of a rejected order keeps the stop it was rejected with
widenStopLossNot(lp) == lp.stopLoss

\* the stop of the retry: the stop of the levels moved away from the entry
widenStopLoss(lp) ==
    LET widenAmount == pipsToPrice(ORDER_RETRY_WIDEN_SL_PIPS)
        isLong == lp.signal = "LONG"
    IN  IF isLong THEN lp.stopLoss - widenAmount ELSE lp.stopLoss + widenAmount

\* the stop the order in flight was submitted with
submittedStopLoss(lp) ==
    IF lp.pc = "placeMarketOrder" THEN lp.stopLoss
    ELSE IF lp.pc = "retryWiderSL" THEN widenStopLoss(lp)
    ELSE NULL

\* the reply to placeMarketOrder: the first order, the retry with a wider stop, the
\* retry without a stop; the reply is kept in `call` until the next step
OrderReply(l) ==
    /\ call.op = "idle"
    /\ InFlight(l)
    /\ \E outcome \in (IF broker.orders < MaxTrades THEN {"filled"} ELSE {}) \cup {"retriable", "rejected"},
          fillPrice \in FillPrices(loops[l]) :
         LET lp == loops[l]
             isLong == lp.signal = "LONG"
             newStopLoss == widenStopLoss(lp)
             id == broker.orders + 1
         IN  /\ call' = [op |-> "orderReply", loop |-> l, order |-> lp.pc, outcome |-> outcome,
                         signal |-> lp.signal, levelsStopLoss |-> lp.stopLoss,
                         stopLoss |-> submittedStopLoss(lp), positions |-> bot.activePositions]
             /\ CASE outcome = "filled" /\ lp.pc = "placeMarketOrder" ->
                       afterFill(l, fillOrder(broker, lp.signal, fillPrice, lp.stopLoss), id,
                                 fillPrice, lp.stopLoss)
                  [] outcome = "filled" /\ lp.pc = "retryWiderSL" ->
                       afterFill(l, fillOrder(broker, lp.signal, fillPrice, newStopLoss), id,
                                 fillPrice, newStopLoss)
                  [] outcome = "filled" /\ lp.pc = "retryNoSL" ->
                       /\ broker' = fillOrder(broker, lp.signal, fillPrice, NULL)
                       /\ loops' = [loops EXCEPT ![l] = [lp EXCEPT
                              !.pc = "attachSL", !.tradeId = id, !.fillPrice = fillPrice,
                              !.orderStopLoss =
                                  IF isLong
                                  THEN fillPrice - pipsToPrice(BREAKOUT_STOP_LOSS_PIPS + ORDER_RETRY_WIDEN_SL_PIPS)
                                  ELSE fillPrice + pipsToPrice(BREAKOUT_STOP_LOSS_PIPS + ORDER_RETRY_WIDEN_SL_PIPS)]]
                       /\ bot' = bot
                  [] outcome = "retriable" /\ config.ENABLE_ORDER_RETRY /\ lp.pc = "placeMarketOrder" ->
                       /\ loops' = [loops EXCEPT ![l] = [lp EXCEPT !.pc = "retryWiderSL"]]
                       /\ UNCHANGED <<bot, broker>>
                  [] outcome # "filled" /\ config.ENABLE_ORDER_RETRY /\ lp.pc = "retryWiderSL" ->
                       /\ loops' = [loops EXCEPT ![l] = [lp EXCEPT !.pc = "retryNoSL"]]
                       /\ UNCHANGED <<bot, broker>>
                  [] OTHER ->
                       /\ loops' = [loops EXCEPT ![l] = IdleLoop]
                       /\ UNCHANGED <<bot, broker>>
    /\ UNCHANGED <<config, breakoutStrategy, now, checks>>

\* the reply to modifyTrade in executeTrade: the stop attached after an unprotected
\* fill, then the stop re-anchored to the fill price; a failure of either is caught
StopReply(l) ==
    /\ call.op = "idle"
    /\ loops[l].pc \in {"attachSL", "modifyTrade"}
    /\ \E ok \in BOOLEAN :
         LET lp == loops[l]
             br == IF ok THEN modifyStop(broker, lp.tradeId, lp.orderStopLoss) ELSE broker
             stopLoss == IF ok THEN lp.orderStopLoss ELSE lp.stopLoss
         IN  IF lp.pc = "attachSL"
             THEN afterFill(l, br, lp.tradeId, lp.fillPrice, stopLoss)
             ELSE /\ broker' = br
                  /\ loops' = [loops EXCEPT ![l] = IdleLoop]
                  /\ bot' = recordPosition(bot, lp, lp.tradeId, lp.fillPrice, stopLoss)
    /\ UNCHANGED <<config, breakoutStrategy, now, call, checks>>

\* the reply of riskManager.canOpenTrade, then executeTrade up to its order
CanOpenTrade(l) ==
    /\ call.op = "idle"
    /\ loops[l].pc = "canOpenTrade"
    /\ \E allowed \in BOOLEAN :
         loops' = [loops EXCEPT ![l] =
            IF allowed
            THEN executeTradeStart(@, @.signal,
                                   [entryPrice |-> @.entryPrice, stopLoss |-> @.stopLoss,
                                    takeProfit1 |-> @.takeProfit1, takeProfit2 |-> @.takeProfit2],
                                   @.reason, @.strategyName)
            ELSE IdleLoop]
    /\ UNCHANGED <<config, breakoutStrategy, now, call, bot, broker, checks>>

---------------------------------------------------------------------------
(* scanMarket and the bot's checkRealtimeBreakout                          *)

\* what the gates of a tick found; kept in `call` until the next step
Gate(l, outcome) ==
    [op |-> "gate", loop |-> l, time |-> now, timer |-> bot.lastTradeCloseTime,
     hasPosition |-> hasPosition(broker), outcome |-> outcome]

\* what a scan does with the result e of evaluateSetup: the strategy's new state, the
\* pending entry's evaluations, and the tick's position (a signal goes on to the
\* await of getOpenTrades with its entry levels)
scanOutcome(e, analysis, h1Candles) ==
    LET mtfEntryPrice == IF e.r.isMTFEntry THEN e.r.entryPrice ELSE NULL
        levels == calculateEntryLevels(analysis, e.r.signal, mtfEntryPrice)
    IN  [b |-> e.b,
         checks |-> IF e.b.pendingSignal = "none" THEN 0
                    ELSE checksAfter(breakoutStrategy, h1Candles, e.r),
         loop |-> IF e.r.signal = "none" THEN IdleLoop
                  ELSE [toCanOpenTrade(IdleLoop, e.r.signal, levels, e.r.reason,
                                       "Breakout + ADX")
                        EXCEPT !.pc = "getOpenTrades"]]

scanAnalysis(candles) == [adx |-> 30, rsi |-> 50, price |-> candles[Len(candles)].close]

scanEvaluation(candles, h1Candles) ==
    scanOutcome(evaluateSetup(breakoutStrategy, scanAnalysis(candles), candles, h1Candles,
                              Usd(2006)),
                scanAnalysis(candles), h1Candles)

\* scanMarket from its start to the await of getOpenTrades: the candles arrive, the
\* strategy is evaluated, and a tick without a signal ends
ScanEvaluateOn(candleSet, h1Set) ==
    /\ call.op = "idle"
    /\ loops["scan"].pc = "idle"
    /\ \E candles \in candleSet, h1Candles \in h1Set, enough \in BOOLEAN :
         /\ NotOlder(candles)
         /\ IF ~enough THEN UNCHANGED <<breakoutStrategy, loops, checks>>
            ELSE \E s \in {scanEvaluation(candles, h1Candles)} :
                     /\ breakoutStrategy' = s.b
                     /\ checks' = s.checks
                     /\ loops' = [loops EXCEPT !["scan"] = s.loop]
    /\ UNCHANGED <<config, now, call, bot, broker>>

\* a scan with enough candles can change the state: the condition under which
\* ScanEvaluateOn can take a step that is not a stuttering step
ScanDue(candleSet, h1Set) ==
    /\ call.op = "idle"
    /\ loops["scan"].pc = "idle"
    /\ \E candles \in candleSet, h1Candles \in h1Set :
         /\ NotOlder(candles)
         /\ scanEvaluation(candles, h1Candles)
                # [b |-> breakoutStrategy, checks |-> checks, loop |-> loops["scan"]]

\* scanMarket from the reply of getOpenTrades to the await of canOpenTrade
ScanGuards ==
    /\ call.op = "idle"
    /\ loops["scan"].pc = "getOpenTrades"
    /\ \E hoursAllowed \in BOOLEAN, sizeOk \in BOOLEAN :
         LET outcome == IF hasPosition(broker) THEN "position"
                        ELSE IF checkTradeCooldown(bot, now) THEN "cooldown"
                        ELSE IF ~hoursAllowed THEN "hours"
                        ELSE IF ~sizeOk THEN "size"
                        ELSE "passed"
         IN  /\ loops' = [loops EXCEPT !["scan"] =
                    IF outcome = "passed" THEN [@ EXCEPT !.pc = "canOpenTrade"] ELSE IdleLoop]
             /\ call' = Gate("scan", outcome)
    /\ UNCHANGED <<config, breakoutStrategy, now, bot, broker, checks>>

\* checkRealtimeBreakout from its start to the await of getPrice
RealtimeGuards ==
    /\ call.op = "idle"
    /\ loops["realtime"].pc = "idle"
    /\ \E hoursAllowed \in BOOLEAN :
         LET outcome == IF hasPosition(broker) THEN "position"
                        ELSE IF checkTradeCooldown(bot, now) THEN "cooldown"
                        ELSE IF ~hoursAllowed THEN "hours"
                        ELSE IF breakoutStrategy.pendingSignal # "none" THEN "pendingSignal"
                        ELSE "passed"
         IN  /\ breakoutStrategy' =
                    IF outcome = "position" /\ hasRealtimeMTFPending(breakoutStrategy)
                    THEN clearRealtimeMTF(breakoutStrategy) ELSE breakoutStrategy
             /\ loops' = [loops EXCEPT !["realtime"] =
                    IF outcome = "passed" THEN [IdleLoop EXCEPT !.pc = "getPrice"] ELSE IdleLoop]
             /\ call' = Gate("realtime", outcome)
    /\ UNCHANGED <<config, now, bot, broker, checks>>

\* from the reply of getPrice: the continuous refiner if an entry is pending (an
\* entry goes on to the await of canOpenTrade), else the await of getCandles
RealtimePriceOn(priceSet) ==
    /\ call.op = "idle"
    /\ loops["realtime"].pc = "getPrice"
    /\ \E currentPrice \in priceSet, sizeOk \in BOOLEAN :
         LET e == checkRealtimeMTFEntry(breakoutStrategy, currentPrice, now)
             levels == calculateEntryLevels([price |-> currentPrice], e.r.signal, e.r.entryPrice)
         IN  IF hasRealtimeMTFPending(breakoutStrategy)
             THEN /\ breakoutStrategy' = e.b
                  /\ loops' = [loops EXCEPT !["realtime"] =
                        IF e.r.pending THEN IdleLoop
                        ELSE IF e.r.signal # "none"
                        THEN (IF sizeOk
                              THEN toCanOpenTrade(IdleLoop, e.r.signal, levels, e.r.reason,
                                                  "Breakout + ADX (Realtime MTF)")
                              ELSE IdleLoop)
                        ELSE [IdleLoop EXCEPT !.pc = "getCandles", !.currentPrice = currentPrice]]
             ELSE /\ breakoutStrategy' = breakoutStrategy
                  /\ loops' = [loops EXCEPT !["realtime"] =
                        [IdleLoop EXCEPT !.pc = "getCandles", !.currentPrice = currentPrice]]
    /\ UNCHANGED <<config, now, call, bot, broker, checks>>

\* from the reply of getCandles: the real-time detector; a direct signal goes on to
\* the await of canOpenTrade
RealtimeCandlesOn(analysisSet) ==
    /\ call.op = "idle"
    /\ loops["realtime"].pc = "getCandles"
    /\ \E analysis \in analysisSet, enough \in BOOLEAN, sizeOk \in BOOLEAN :
         LET lp == loops["realtime"]
             e == strategyCheckRealtimeBreakout(breakoutStrategy, lp.currentPrice,
                                                analysis.adx, analysis.rsi, now)
             levels == calculateEntryLevels([price |-> lp.currentPrice], e.r.signal, e.r.entryPrice)
         IN  IF ~enough
             THEN /\ breakoutStrategy' = breakoutStrategy
                  /\ loops' = [loops EXCEPT !["realtime"] = IdleLoop]
             ELSE /\ breakoutStrategy' = e.b
                  /\ loops' = [loops EXCEPT !["realtime"] =
                        IF e.r.pending \/ e.r.pendingMTF \/ e.r.signal = "none" \/ ~sizeOk
                        THEN IdleLoop
                        ELSE toCanOpenTrade(IdleLoop, e.r.signal, levels, e.r.reason,
                                            "Breakout + ADX (Realtime)")]
    /\ UNCHANGED <<config, now, call, bot, broker, checks>>

---------------------------------------------------------------------------
(* monitorPositions                                                        *)

\* trade ids in the order the account lists them and the Map keeps them
RECURSIVE Ascending(_)
Ascending(S) ==
    IF S = {} THEN <<>>
    ELSE LET m == CHOOSE x \in S : \A y \in S : x <= y IN <<m>> \o Ascending(S \ {m})

\* the trade's close endpoint with a number of units
partialClose(br, id, closeUnits) ==
    LET t == br.openTrades[id]
        left == Abs(t.units) - closeUnits
    IN  IF left <= 0
        THEN [br EXCEPT !.openTrades = Remove(@, id), !.closed = @ \cup {id}]
        ELSE [br EXCEPT !.openTrades[id].units = IF t.units > 0 THEN left ELSE 0 - left]

\* client.modifyTrade(tradeId, null, takeProfit) on an open trade
modifyTakeProfit(br, id, takeProfit) ==
    IF id \in DOMAIN br.openTrades THEN [br EXCEPT !.openTrades[id].takeProfit = takeProfit] ELSE br

\* the staged take-profit block for one trade of the snapshot; skip is the `continue`
stagedStep(b, br, id, trade, price, outcome) ==
    LET tracked == b.activePositions[id]
        isLong == trade.units > 0
        tp1Hit == IF isLong THEN price >= tracked.takeProfit1 ELSE price <= tracked.takeProfit1
        closeUnits == (Abs(trade.units) * 6) \div 10
        open == id \in DOMAIN br.openTrades
        same == [bot |-> b, broker |-> br, skip |-> FALSE]
    IN  IF ~(config.ENABLE_STAGED_TP /\ ~tracked.tp1Hit) THEN same
        ELSE IF ~tp1Hit THEN same
        ELSE IF closeUnits <= 0 THEN [same EXCEPT !.skip = TRUE]
        ELSE IF outcome = "closeFailed" \/ ~open THEN same
        ELSE IF outcome = "modifyFailed" \/ closeUnits >= Abs(br.openTrades[id].units)
        THEN [same EXCEPT !.broker = partialClose(br, id, closeUnits)]
        ELSE [same EXCEPT
                !.broker = modifyTakeProfit(modifyStop(partialClose(br, id, closeUnits),
                                                       id, tracked.entryPrice),
                                            id, tracked.takeProfit2),
                !.bot = savePositions([b EXCEPT !.activePositions[id].tp1Hit = TRUE])]

\* a trailing-stop block that moves the stop with every price once trailing is active
trailingStepNoRatchet(b, br, id, trade, price, ok) ==
    LET tracked == b.activePositions[id]
        isLong == trade.units > 0
        trailDistance == pipsToPrice(TRAILING_STOP_DISTANCE_PIPS)
        profitMove == IF isLong THEN price - tracked.entryPrice ELSE tracked.entryPrice - price
        newStopLoss == IF isLong THEN price - trailDistance ELSE price + trailDistance
    IN  IF tracked.tp1Hit \/ profitMove >= pipsToPrice(BREAKOUT_TRAILING_ACTIVATION_PIPS)
        THEN [bot |-> savePositions([b EXCEPT !.activePositions[id].bestPrice = price,
                                              !.activePositions[id].currentStopLoss = newStopLoss]),
              broker |-> modifyStop(br, id, newStopLoss), skip |-> FALSE]
        ELSE [bot |-> b, broker |-> br, skip |-> FALSE]

\* the trailing-stop block for one trade of the snapshot
trailingStep(b, br, id, trade, price, ok) ==
    LET tracked == b.activePositions[id]
        isLong == trade.units > 0
        trailDistance == pipsToPrice(TRAILING_STOP_DISTANCE_PIPS)
        profitMove == IF isLong THEN price - tracked.entryPrice ELSE tracked.entryPrice - price
        isBreakoutTrade == tracked.strategyName \in
            {"Breakout + ADX", "Breakout + ADX (Realtime)", "Breakout + ADX (Realtime MTF)"}
        activationPips == IF isBreakoutTrade THEN BREAKOUT_TRAILING_ACTIVATION_PIPS
                          ELSE TRAILING_ACTIVATION_PIPS
        activationDistance == pipsToPrice(activationPips)
        shouldTrail == tracked.tp1Hit \/ profitMove >= activationDistance
        priceMovedFavorably == IF isLong THEN price > tracked.bestPrice ELSE price < tracked.bestPrice
        newStopLoss == IF isLong THEN price - trailDistance ELSE price + trailDistance
        stopImproved == IF isLong THEN newStopLoss > tracked.currentStopLoss
                        ELSE newStopLoss < tracked.currentStopLoss
        moved == [b EXCEPT !.activePositions[id].bestPrice = price]
        same == [bot |-> b, broker |-> br, skip |-> FALSE]
    IN  IF ~(shouldTrail /\ priceMovedFavorably) THEN same
        ELSE IF ~stopImproved THEN [same EXCEPT !.bot = moved]
        ELSE IF ~ok \/ id \notin DOMAIN br.openTrades THEN [same EXCEPT !.bot = moved]
        ELSE [same EXCEPT
                !.broker = modifyStop(br, id, newStopLoss),
                !.bot = savePositions([moved EXCEPT !.activePositions[id].currentStopLoss = newStopLoss])]

\* the staged take-profit block runs for the tracked position
stagedApplies(b, id) == config.ENABLE_STAGED_TP /\ ~b.activePositions[id].tp1Hit

\* a trade of the snapshot makes the tick wait for a price
needsPrice(b, id) ==
    /\ id \in DOMAIN b.activePositions
    /\ (stagedApplies(b, id) \/ config.ENABLE_TRAILING_STOP)

RECURSIVE skipTrades(_, _)
skipTrades(todo, b) ==
    IF todo = <<>> \/ needsPrice(b, Head(todo)) THEN todo ELSE skipTrades(Tail(todo), b)

\* the tick from one trade of the snapshot to its next await: the price of the next
\* tracked trade, or, past the last trade, the close details of the first tracked
\* position missing from the snapshot (which is deleted and the file saved first)
monitorNext(lp, b) ==
    LET todo == skipTrades(lp.todo, b)
        closedTrades == Ascending(DOMAIN b.activePositions \ DOMAIN lp.snapshot)
    IN  IF todo # <<>> THEN [lp |-> [lp EXCEPT !.pc = "getPrice", !.todo = todo], bot |-> b]
        ELSE IF closedTrades = <<>> THEN [lp |-> IdleLoop, bot |-> b]
        ELSE [lp |-> [lp EXCEPT !.pc = "closeDetails", !.todo = closedTrades],
              bot |-> savePositions([b EXCEPT !.activePositions = Remove(@, Head(closedTrades))])]

\* the reply of getOpenTrades
MonitorStart ==
    /\ call.op = "idle"
    /\ loops["monitor"].pc = "idle"
    /\ LET lp == [IdleLoop EXCEPT !.snapshot = broker.openTrades,
                                  !.todo = Ascending(DOMAIN broker.openTrades)]
           n == monitorNext(lp, bot)
       IN  /\ loops' = [loops EXCEPT !["monitor"] = n.lp]
           /\ bot' = n.bot
    /\ UNCHANGED <<config, breakoutStrategy, now, call, broker, checks>>

\* one trade of the snapshot: the prices arrive (one for the staged take-profit, one
\* for the trailing stop), and the two blocks act; a price that cannot be fetched ends
\* the tick
MonitorTradeOn(pricePairs) ==
    /\ call.op = "idle"
    /\ loops["monitor"].pc = "getPrice"
    /\ \E prices \in pricePairs, priceOk \in BOOLEAN, ok \in BOOLEAN,
          outcome \in (IF stagedApplies(bot, Head(loops["monitor"].todo))
                       THEN {"done", "modifyFailed", "closeFailed"} ELSE {"none"}) :
         LET lp == loops["monitor"]
             price1 == prices[1]
             price2 == prices[2]
             id == Head(lp.todo)
             trade == lp.snapshot[id]
             s1 == stagedStep(bot, broker, id, trade, price1, outcome)
             s2 == IF s1.skip \/ ~config.ENABLE_TRAILING_STOP THEN s1
                   ELSE trailingStep(s1.bot, s1.broker, id, trade, price2, ok)
             n == monitorNext([lp EXCEPT !.todo = Tail(@)], s2.bot)
         IN  IF ~priceOk
             THEN /\ loops' = [loops EXCEPT !["monitor"] = IdleLoop]
                  /\ UNCHANGED <<bot, broker, call>>
             ELSE /\ loops' = [loops EXCEPT !["monitor"] = n.lp]
                  /\ bot' = n.bot
                  /\ broker' = s2.broker
                  /\ call' = [op |-> "monitorTrade", id |-> id, price |-> price2,
                              ok |-> ok /\ id \in DOMAIN s1.broker.openTrades,
                              before |-> bot.activePositions[id],
                              after |-> s2.bot.activePositions[id]]
    /\ UNCHANGED <<config, breakoutStrategy, now, checks>>

\* the reply of the trade-details request for a position found closed: a CLOSED
\* trade starts the cooldown; then the next closed position, if any
MonitorCloseDetails ==
    /\ call.op = "idle"
    /\ loops["monitor"].pc = "closeDetails"
    /\ \E fetched \in BOOLEAN :
         LET lp == loops["monitor"]
             id == Head(lp.todo)
             rest == Tail(lp.todo)
             b1 == IF fetched /\ id \in broker.closed
                   THEN saveCooldown([bot EXCEPT !.lastTradeCloseTime = now]) ELSE bot
         IN  IF rest = <<>>
             THEN /\ loops' = [loops EXCEPT !["monitor"] = IdleLoop]
                  /\ bot' = b1
             ELSE /\ loops' = [loops EXCEPT !["monitor"] = [lp EXCEPT !.todo = rest]]
                  /\ bot' = savePositions([b1 EXCEPT !.activePositions = Remove(@, Head(rest))])
    /\ UNCHANGED <<config, breakoutStrategy, now, call, broker, checks>>

\* the account closes a trade (stop loss, take profit, or by hand)
BrokerClose ==
    /\ call.op = "idle"
    /\ \E id \in DOMAIN broker.openTrades :
         broker' = [broker EXCEPT !.openTrades = Remove(@, id), !.closed = @ \cup {id}]
    /\ UNCHANGED <<config, breakoutStrategy, now, call, bot, loops, checks>>

---------------------------------------------------------------------------
(* The bot: the three loops against one account and one strategy object    *)

\* the clock of the bot's runs
BotMaxClock == 3

BotAdvance ==
    /\ call.op = "idle"
    /\ now < BotMaxClock
    /\ now' = now + 1
    /\ UNCHANGED <<config, breakoutStrategy, call, bot, broker, loops, checks>>

\* the scans of the bot's runs: the bar that closed is a breakout bar or an inside bar
BotCandleInputs ==
    {Rep(BREAKOUT_LOOKBACK, Bar(0, 2004, 2010, 2000, 2006)) \o <<l>> :
        l \in {Bar(t, 2005, 2008, 2004, 2007) : t \in 1..MaxBarTime}
              \cup {Bar(MaxBarTime, 2011, 2016, 2010, 2015)}}

\* mid prices the real-time loop and the monitor see
TickPrices == {Usd(2005), Usd(2011), Usd(2012)}
MonitorPrices == {Usd(2012)}

\* the entry-timeframe candles of the bot's scans: the pullback entry met, or not yet
BotH1Inputs ==
    {[isNull |-> FALSE, length |-> 30, last |-> h, ema |-> Usd(1990)] :
        h \in {Bar(0, 2012, 2015, 2011, 2014), Bar(0, 2015, 2016, 2015, 2016)}}

ScanEvaluate == ScanEvaluateOn(BotCandleInputs, BotH1Inputs)
RealtimePrice == RealtimePriceOn(TickPrices)
RealtimeCandles == RealtimeCandlesOn({[adx |-> 30, rsi |-> 50]})
MonitorTrade == MonitorTradeOn(MonitorPrices \X MonitorPrices)

\* the default switches of Config
Init ==
    /\ config = ConfigWith(TRUE, TRUE, FALSE, TRUE)
    /\ breakoutStrategy = loadState(NewStrategy(NoFile))
    /\ now = 1
    /\ call = Idle
    /\ InitBot
    /\ checks = 0

Next ==
    \/ ScanEvaluate
    \/ ScanGuards
    \/ RealtimeGuards
    \/ RealtimePrice
    \/ RealtimeCandles
    \/ CanOpenTrade("scan")
    \/ CanOpenTrade("realtime")
    \/ OrderReply("scan")
    \/ OrderReply("realtime")
    \/ StopReply("scan")
    \/ StopReply("realtime")
    \/ MonitorStart
    \/ MonitorTrade
    \/ MonitorCloseDetails
    \/ BrokerClose
    \/ BotAdvance
    \/ Return

Spec == Init /\ [][Next]_vars

---------------------------------------------------------------------------
(* The bot over unbounded time: the clock never stops, and each timer loop  *)
(* and each reply is scheduled fairly.                                      *)

\* the clock of the long runs: readings beyond it are kept by moving the origin; it is
\* longer than the confirmation window, the continuous entry's wait and the cooldown
PendingMaxClock == 3

\* a stored timestamp after the origin of time has moved one unit forward; a timestamp
\* at the origin stays there, further in the past than every window of the program
ShiftTime(t) == IF t = NULL \/ t = 0 THEN t ELSE t - 1

shiftFields(s) ==
    [s EXCEPT !.realtimeBreakoutTime = ShiftTime(@), !.realtimeMTFTime = ShiftTime(@)]

\* Date.now() grows by one unit; at PendingMaxClock the origin moves instead, which
\* leaves every elapsed time of at most PendingMaxClock as it is
PendingAdvance ==
    /\ call.op = "idle"
    /\ IF now < PendingMaxClock
       THEN /\ now' = now + 1
            /\ UNCHANGED <<breakoutStrategy, bot>>
       ELSE /\ now' = now
            /\ breakoutStrategy' =
                 [shiftFields(breakoutStrategy) EXCEPT !.file.state = shiftFields(@)]
            /\ bot' = [bot EXCEPT !.lastTradeCloseTime = ShiftTime(@),
                                  !.cooldownFile = ShiftTime(@)]
    /\ UNCHANGED <<config, call, broker, loops, checks>>

\* the scans of the long runs: an inside bar, then a breakout bar
PendingCandleInputs ==
    {Rep(BREAKOUT_LOOKBACK, Bar(0, 2004, 2010, 2000, 2006)) \o <<l>> :
        l \in {Bar(1, 2005, 2008, 2004, 2007), Bar(MaxBarTime, 2011, 2016, 2010, 2015)}}

\* mid prices of the long runs: inside the channel, and beyond its high
PendingTickPrices == {Usd(2005), Usd(2012)}

PendingScanEvaluate == ScanEvaluateOn(PendingCandleInputs, BotH1Inputs)
PendingRealtimePrice == RealtimePriceOn(PendingTickPrices)

\* the steps of one loop after the scan's evaluation; the loop's position enables one
\* of them at a time
LoopStep(l) ==
    IF l = "scan"
    THEN ScanGuards \/ CanOpenTrade(l) \/ OrderReply(l) \/ StopReply(l)
    ELSE IF l = "realtime"
    THEN RealtimeGuards \/ PendingRealtimePrice \/ RealtimeCandles
            \/ CanOpenTrade(l) \/ OrderReply(l) \/ StopReply(l)
    ELSE MonitorStart \/ MonitorTrade \/ MonitorCloseDetails

NextPending ==
    \/ PendingScanEvaluate
    \/ ScanGuards
    \/ RealtimeGuards
    \/ PendingRealtimePrice
    \/ RealtimeCandles
    \/ CanOpenTrade("scan")
    \/ CanOpenTrade("realtime")
    \/ OrderReply("scan")
    \/ OrderReply("realtime")
    \/ StopReply("scan")
    \/ StopReply("realtime")
    \/ MonitorStart
    \/ MonitorTrade
    \/ MonitorCloseDetails
    \/ BrokerClose
    \/ PendingAdvance
    \/ Return

\* the timers re-arm after every tick and every request is answered, so the step a
\* loop is at, if it can be taken again and again, is taken (for the scan's evaluation
\* this is strong fairness written with ScanDue for its enabling condition: a scan
\* that is due reaches evaluateSetup); time passes
FairTicks ==
    /\ <>[]~ScanDue(PendingCandleInputs, BotH1Inputs) \/ []<><<PendingScanEvaluate>>_vars
    /\ SF_vars(LoopStep("scan"))
    /\ SF_vars(LoopStep("realtime"))
    /\ SF_vars(LoopStep("monitor"))
    /\ SF_vars(PendingAdvance)
    /\ WF_vars(Return)

\* pullback entries on, trend continuation and order retry off
InitPending ==
    /\ config = ConfigWith(TRUE, FALSE, FALSE, FALSE)
    /\ breakoutStrategy = loadState(NewStrategy(NoFile))
    /\ now = 1
    /\ call = Idle
    /\ InitBot
    /\ checks = 0

SpecPending == InitPending /\ [][NextPending]_vars /\ FairTicks

\* a real-time tick that passes every guard and goes on to getPrice
RealtimeGuardsPassed == RealtimeGuards /\ call'.outcome = "passed"

\* the same runs where, in addition, the trading hours are open again and again when
\* the real-time loop ticks
SpecPendingOpen == SpecPending /\ SF_vars(RealtimeGuardsPassed)

---------------------------------------------------------------------------
(* The monitor at work: the scan loop opens positions of either side from   *)
(* direct signals, the monitor follows them through rising and falling      *)
(* prices, with and without the staged take-profit.                        *)

\* the scans: an inside bar, then a breakout bar of either side
MonitorCandleInputs ==
    {Rep(BREAKOUT_LOOKBACK, Bar(0, 2004, 2010, 2000, 2006)) \o <<l>> :
        l \in {Bar(1, 2005, 2008, 2004, 2007)}
              \cup UNION {{Bar(t, 2011, 2016, 2010, 2015), Bar(t, 1999, 2000, 1994, 1995)} :
                            t \in MaxBarTime..(MaxBarTime + 1)}}

\* mid prices around and beyond the activation distance and the first target of a
\* LONG from about 2015 and of a SHORT from about 1995
MonitorPriceInputs == {Usd(2021), Usd(2024), Usd(1989), Usd(1986)}

MonitorScanEvaluate == ScanEvaluateOn(MonitorCandleInputs, {NullH1})
MonitorTradePrices == MonitorTradeOn({<<price, price>> : price \in MonitorPriceInputs})

InitMonitor ==
    /\ config \in {ConfigWith(FALSE, FALSE, stagedTP, FALSE) : stagedTP \in BOOLEAN}
    /\ breakoutStrategy = loadState(NewStrategy(NoFile))
    /\ now = 1
    /\ call = Idle
    /\ InitBot
    /\ checks = 0

NextMonitor ==
    \/ MonitorScanEvaluate
    \/ ScanGuards
    \/ CanOpenTrade("scan")
    \/ OrderReply("scan")
    \/ StopReply("scan")
    \/ MonitorStart
    \/ MonitorTradePrices
    \/ MonitorCloseDetails
    \/ BrokerClose
    \/ Return

SpecMonitor == InitMonitor /\ [][NextMonitor]_vars

---------------------------------------------------------------------------
(* The trailing stop on one open position: a position filled at $2000,     *)
(* LONG or SHORT, of the Triple Confirmation strategy (activation $2.00)   *)
(* or of the breakout strategy (activation $3.50), followed by the monitor *)
(* through rising and falling prices, with modifyTrade succeeding or not.  *)

TrailingEntry == Usd(2000)

TrailingPriceInputs == {Usd(1994), Usd(1997), Usd(1999), Usd(2001), Usd(2003), Usd(2006)}

\* the stop distance executeTrade anchors to the fill price
fillStopDistance(strategyName) ==
    pipsToPrice(IF strategyName \in {"Breakout + ADX", "Breakout + ADX (Realtime)",
                                     "Breakout + ADX (Realtime MTF)"}
                THEN BREAKOUT_STOP_LOSS_PIPS ELSE STOP_LOSS_PIPS)

MonitorTradeTicks == MonitorTradeOn({<<price, price>> : price \in TrailingPriceInputs})

\* the bot and the account right after executeTrade recorded the fill
InitTrailing ==
    /\ config = ConfigWith(FALSE, FALSE, FALSE, FALSE)
    /\ breakoutStrategy = loadState(NewStrategy(NoFile))
    /\ now = 1
    /\ call = Idle
    /\ loops = [l \in {"scan", "realtime", "monitor"} |-> IdleLoop]
    /\ checks = 0
    /\ \E signal \in {"LONG", "SHORT"}, strategyName \in {"Triple Confirmation", "Breakout + ADX"} :
         LET isLong == signal = "LONG"
             stopDistance == fillStopDistance(strategyName)
             stopLoss == IF isLong THEN TrailingEntry - stopDistance ELSE TrailingEntry + stopDistance
             tpDistance == (stopDistance * TAKE_PROFIT_RR) \div 10
             takeProfit == IF isLong THEN TrailingEntry + tpDistance ELSE TrailingEntry - tpDistance
             lp == [IdleLoop EXCEPT !.signal = signal, !.strategyName = strategyName,
                                    !.takeProfit1 = takeProfit, !.takeProfit2 = takeProfit]
         IN  /\ broker = fillOrder([openTrades |-> NoPositions, closed |-> {}, orders |-> 0],
                                   signal, TrailingEntry, stopLoss)
             /\ bot = recordPosition([activePositions |-> NoPositions, lastTradeCloseTime |-> NULL,
                                      positionsFile |-> NoPositions, cooldownFile |-> NULL],
                                     lp, 1, TrailingEntry, stopLoss)

NextTrailing ==
    \/ MonitorStart
    \/ MonitorTradeTicks
    \/ MonitorCloseDetails
    \/ BrokerClose
    \/ Return

SpecTrailing == InitTrailing /\ [][NextTrailing]_vars

---------------------------------------------------------------------------
(* A restart: the constructor loads the positions the previous run saved,  *)
(* start reconciles them with the account (syncPositionsWithOanda) and     *)
(* then arms the loops; the monitor ticks follow, the scans and real-time  *)
(* checks of these runs find nothing to trade.                             *)

StartupEntry == Usd(2012)

\* a position as executeTrade recorded and saved it in the previous run
savedPosition(b, id) ==
    recordPosition(b, [IdleLoop EXCEPT !.signal = "LONG", !.strategyName = "Breakout + ADX",
                                       !.takeProfit1 = StartupEntry + Usd(9),
                                       !.takeProfit2 = StartupEntry + Usd(9)],
                   id, StartupEntry, StartupEntry - pipsToPrice(BREAKOUT_STOP_LOSS_PIPS))

\* loadPositions of the constructor: the positions of the file, if it exists
loadPositions(b) == [b EXCEPT !.activePositions = b.positionsFile]

\* the account after the two orders of the previous run, with the trades of `open`
\* still open
startupAccount(open) ==
    LET stopLoss == StartupEntry - pipsToPrice(BREAKOUT_STOP_LOSS_PIPS)
        first == fillOrder([openTrades |-> NoPositions, closed |-> {}, orders |-> 0],
                           "LONG", StartupEntry, stopLoss)
        both == fillOrder(first, "LONG", StartupEntry, stopLoss)
    IN  [both EXCEPT !.openTrades = [id \in open |-> both.openTrades[id]],
                     !.closed = {1, 2} \ open]

\* start() has armed the loops
Started == loops["start"].pc = "started"

InitStartup ==
    /\ config = ConfigWith(FALSE, FALSE, FALSE, FALSE)
    /\ breakoutStrategy = loadState(NewStrategy(NoFile))
    /\ now = 1
    /\ call = Idle
    /\ checks = 0
    /\ \E saved \in SUBSET {1, 2}, open \in SUBSET {1, 2} :
         LET none == [activePositions |-> NoPositions, lastTradeCloseTime |-> NULL,
                      positionsFile |-> NoPositions, cooldownFile |-> NULL]
             one == IF 1 \in saved THEN savedPosition(none, 1) ELSE none
             two == IF 2 \in saved THEN savedPosition(one, 2) ELSE one
         IN  /\ bot = loadPositions([two EXCEPT !.activePositions = NoPositions])
             /\ broker = startupAccount(open)
    /\ loops = [l \in {"scan", "realtime", "monitor", "start"} |->
                  IF l = "start" THEN [IdleLoop EXCEPT !.pc = "getOpenTrades"] ELSE IdleLoop]

\* syncPositionsWithOanda from a tracked position found missing to the next await: the
\* close details of the first position of the list, or, past the last one, the save of
\* the file and the rest of start()
syncNext(lp, b) ==
    IF lp.todo = <<>> THEN [lp |-> [lp EXCEPT !.pc = "started"], bot |-> savePositions(b)]
    ELSE [lp |-> [lp EXCEPT !.pc = "closeDetails"], bot |-> b]

\* syncPositionsWithOanda: the reply of getOpenTrades; an error is caught and logged
SyncOpenTrades ==
    /\ call.op = "idle"
    /\ loops["start"].pc = "getOpenTrades"
    /\ \E ok \in BOOLEAN :
         LET lp == loops["start"]
             closedWhileDown == Ascending(DOMAIN bot.activePositions \ DOMAIN broker.openTrades)
             n == syncNext([lp EXCEPT !.snapshot = broker.openTrades, !.todo = closedWhileDown], bot)
         IN  IF ~ok
             THEN /\ loops' = [loops EXCEPT !["start"] =
                                 [lp EXCEPT !.pc = "started",
                                            !.reason = "Failed to sync positions with Oanda"]]
                  /\ bot' = bot
             ELSE /\ loops' = [loops EXCEPT !["start"] = n.lp]
                  /\ bot' = n.bot
    /\ UNCHANGED <<config, breakoutStrategy, now, call, broker, checks>>

\* syncPositionsWithOanda: the reply of the trade-details request for a position
\* closed while the bot was down: a CLOSED trade starts the cooldown, the position is
\* deleted, then the next one
SyncCloseDetails ==
    /\ call.op = "idle"
    /\ loops["start"].pc = "closeDetails"
    /\ \E fetched \in BOOLEAN :
         LET lp == loops["start"]
             id == Head(lp.todo)
             b1 == IF fetched /\ id \in broker.closed
                   THEN saveCooldown([bot EXCEPT !.lastTradeCloseTime = now]) ELSE bot
             n == syncNext([lp EXCEPT !.todo = Tail(@)],
                           [b1 EXCEPT !.activePositions = Remove(@, id)])
         IN  /\ loops' = [loops EXCEPT !["start"] = n.lp]
             /\ bot' = n.bot
    /\ UNCHANGED <<config, breakoutStrategy, now, call, broker, checks>>

\* the monitor ticks once start() has armed the loops
NextStartup ==
    \/ SyncOpenTrades
    \/ SyncCloseDetails
    \/ Started /\ MonitorStart
    \/ Started /\ MonitorTrade
    \/ Started /\ MonitorCloseDetails
    \/ BrokerClose
    \/ BotAdvance
    \/ Return

SpecStartup == InitStartup /\ [][NextStartup]_vars


---------------------------------------------------------------------------
(* The timers of start(): the scan, monitor and real-time loops, each a    *)
(* setTimeout whose callback awaits the tick and re-arms the timer in its  *)
(* finally block, the initial scan start() awaits after arming the scan    *)
(* timer, and the watchdog's setInterval. Time is counted in minutes; a    *)
(* tick lasts as long as the requests it awaits. scanMarket,               *)
(* monitorPositions and checkRealtimeBreakout catch the errors of their    *)
(* bodies, so a tick returns to its callback whether its body failed or    *)
(* not. `checks` keeps the time the last tick returned without an error.   *)

SCAN_INTERVAL_MINUTES == 15
MONITOR_INTERVAL_MINUTES == 1
REALTIME_CHECK_INTERVAL_MINUTES == 1
WATCHDOG_CHECK_INTERVAL == 5
WATCHDOG_TIMEOUT == 20

\* the clock of the timers' runs; past it every timestamp is kept relative to it
TimerMaxClock == 22

TimerLoops == {"scan", "monitor", "realtime"}

intervalOf(l) ==
    IF l = "scan" THEN SCAN_INTERVAL_MINUTES
    ELSE IF l = "monitor" THEN MONITOR_INTERVAL_MINUTES
    ELSE REALTIME_CHECK_INTERVAL_MINUTES

\* a timer: not yet set, set to fire at `due`, its callback awaiting the tick, or the
\* setImmediate of its finally block queued
Timer(pc, due) == [pc |-> pc, due |-> due]

\* process.exit has not been called
Alive == loops["start"].pc # "exited"

\* start() from scheduleNextScan() to the await of the initial scan; the constructor
\* has set lastActivityTime
InitTimers ==
    /\ config = ConfigWith(TRUE, TRUE, FALSE, TRUE)
    /\ breakoutStrategy = loadState(NewStrategy(NoFile))
    /\ now = 0
    /\ call = Idle
    /\ bot = [activePositions |-> NoPositions, lastTradeCloseTime |-> NULL,
              positionsFile |-> NoPositions, cooldownFile |-> NULL, lastActivityTime |-> 0]
    /\ broker = [openTrades |-> NoPositions, closed |-> {}, orders |-> 0]
    /\ loops = [l \in TimerLoops \cup {"start", "watchdog"} |->
                  IF l = "scan" THEN Timer("setTimeout", SCAN_INTERVAL_MINUTES)
                  ELSE IF l = "start" THEN Timer("initialScan", NULL)
                  ELSE Timer("unset", NULL)]
    /\ checks = 0

\* a timestamp one minute later on the clock
agedStamp(t) == IF t = NULL \/ t = 0 THEN t ELSE t - 1

\* a minute passes; no timer that is due waits for it
TimerAdvance ==
    /\ Alive
    /\ \A l \in TimerLoops \cup {"watchdog"} :
          loops[l].pc \in {"setTimeout", "setInterval"} => loops[l].due > now
    /\ \A l \in TimerLoops : loops[l].pc # "setImmediate"
    /\ IF now < TimerMaxClock
       THEN /\ now' = now + 1
            /\ UNCHANGED <<bot, loops, checks>>
       ELSE /\ now' = now
            /\ bot' = [bot EXCEPT !.lastActivityTime = agedStamp(@)]
            /\ loops' = [l \in DOMAIN loops |-> [loops[l] EXCEPT !.due = agedStamp(@)]]
            /\ checks' = agedStamp(checks)
    /\ UNCHANGED <<config, breakoutStrategy, call, broker>>

\* the timer of a loop fires: its callback calls the tick and awaits it
TimerFire(l) ==
    /\ Alive
    /\ loops[l].pc = "setTimeout"
    /\ loops[l].due <= now
    /\ loops' = [loops EXCEPT ![l] = Timer("tick", NULL)]
    /\ UNCHANGED <<config, breakoutStrategy, now, call, bot, broker, checks>>


\* the tick returns to the callback, its body done or failed and caught:
\* lastActivityTime = Date.now(), then finally queues the re-arming
TickDone(l) ==
    /\ Alive
    /\ loops[l].pc = "tick"
    /\ \E failed \in BOOLEAN :
         /\ bot' = [bot EXCEPT !.lastActivityTime = now]
         /\ checks' = IF failed THEN checks ELSE now
         /\ loops' = [loops EXCEPT ![l] = [pc |-> "setImmediate", due |-> NULL, failed |-> failed]]
    /\ UNCHANGED <<config, breakoutStrategy, now, call, broker>>

\* a finally block that sets the timer again only after a tick that did not fail
RearmUnlessFailed(l) ==
    /\ Alive
    /\ loops[l].pc = "setImmediate"
    /\ ~loops[l].failed
    /\ loops' = [loops EXCEPT ![l] = Timer("setTimeout", now + intervalOf(l))]
    /\ UNCHANGED <<config, breakoutStrategy, now, call, bot, broker, checks>>

\* setImmediate(() => scheduleNext...()): the timer is set again
Rearm(l) ==
    /\ Alive
    /\ loops[l].pc = "setImmediate"
    /\ loops' = [loops EXCEPT ![l] = Timer("setTimeout", now + intervalOf(l))]
    /\ UNCHANGED <<config, breakoutStrategy, now, call, bot, broker, checks>>

\* the initial scan returns to start(), which sets the monitor and real-time timers
\* and the watchdog
InitialScanDone ==
    /\ Alive
    /\ loops["start"].pc = "initialScan"
    /\ \E failed \in BOOLEAN :
         /\ bot' = [bot EXCEPT !.lastActivityTime = now]
         /\ checks' = IF failed THEN checks ELSE now
         /\ loops' = [loops EXCEPT
                !["start"] = Timer("running", NULL),
                !["monitor"] = Timer("setTimeout", now + MONITOR_INTERVAL_MINUTES),
                !["realtime"] = Timer("setTimeout", now + REALTIME_CHECK_INTERVAL_MINUTES),
                !["watchdog"] = Timer("setInterval", now + WATCHDOG_CHECK_INTERVAL)]
    /\ UNCHANGED <<config, breakoutStrategy, now, call, broker>>

\* the watchdog's callback: process.exit when the last activity is older than the
\* timeout
WatchdogCheck ==
    /\ Alive
    /\ loops["watchdog"].pc = "setInterval"
    /\ loops["watchdog"].due <= now
    /\ LET timeSinceActivity == now - bot.lastActivityTime
       IN  IF timeSinceActivity > WATCHDOG_TIMEOUT
           THEN loops' = [loops EXCEPT !["start"] = Timer("exited", NULL),
                                       !["watchdog"] = Timer("checked", now)]
           ELSE loops' = [loops EXCEPT !["watchdog"] =
                             Timer("setInterval", now + WATCHDOG_CHECK_INTERVAL)]
    /\ UNCHANGED <<config, breakoutStrategy, now, call, bot, broker, checks>>

NextTimers ==
    \/ TimerAdvance
    \/ \E l \in TimerLoops : TimerFire(l)
    \/ \E l \in TimerLoops : TickDone(l)
    \/ \E l \in TimerLoops : Rearm(l)
    \/ InitialScanDone
    \/ WatchdogCheck

SpecTimers == InitTimers /\ [][NextTimers]_vars


\* the event loop runs every callback that is due and time passes: the timers'
\* callbacks, the setImmediate callbacks and the watchdog's callback
FairTimers ==
    /\ WF_vars(TimerAdvance)
    /\ WF_vars(WatchdogCheck)
    /\ \A l \in TimerLoops : WF_vars(TimerFire(l)) /\ WF_vars(Rearm(l))

SpecTimersFair == SpecTimers /\ FairTimers


---------------------------------------------------------------------------
(* The trading-hours gate: every configured window and every hour of the   *)
(* UK day, at a scan that holds a signal.                                  *)

Hours == 0..23

\* checkTradingHours with the UK hour of the clock
checkTradingHours(currentHour) ==
    LET startHour == config.TRADING_START_HOUR
        endHour == config.TRADING_END_HOUR
    IN  IF startHour < endHour
        THEN LET allowed == currentHour >= startHour /\ currentHour < endHour
             IN  [allowed |-> allowed, currentHour |-> currentHour,
                  reason |-> IF allowed THEN "" ELSE "Outside trading hours"]
        ELSE LET allowed == currentHour >= startHour \/ currentHour < endHour
             IN  [allowed |-> allowed, currentHour |-> currentHour,
                  reason |-> IF allowed THEN "" ELSE "Outside trading hours"]

InitHours ==
    /\ \E startHour \in Hours, endHour \in Hours :
         config = [TRADING_START_HOUR |-> startHour, TRADING_END_HOUR |-> endHour]
                     @@ ConfigWith(FALSE, FALSE, FALSE, FALSE)
    /\ breakoutStrategy = loadState(NewStrategy(NoFile))
    /\ now = 1
    /\ call = Idle
    /\ InitBot
    /\ checks = 0

\* scanMarket with a LONG signal, past the position and cooldown gates: the
\* trading-hours gate returns, or the tick goes on to the entry levels and the size
ScanTradingHours ==
    /\ call.op = "idle"
    /\ loops["scan"].pc = "idle"
    /\ \E currentHour \in Hours :
         LET tradingHours == checkTradingHours(currentHour)
             levels == calculateEntryLevels([price |-> Usd(2012)], "LONG", NULL)
         IN  /\ call' = [op |-> "checkTradingHours", tradingHours |-> tradingHours]
             /\ loops' = [loops EXCEPT !["scan"] =
                            IF ~tradingHours.allowed THEN IdleLoop
                            ELSE toCanOpenTrade(IdleLoop, "LONG", levels, "breakout",
                                                "Breakout + ADX")]
    /\ UNCHANGED <<config, breakoutStrategy, now, bot, broker, checks>>

\* canOpenTrade refuses
ScanRefused ==
    /\ call.op = "idle"
    /\ loops["scan"].pc = "canOpenTrade"
    /\ loops' = [loops EXCEPT !["scan"] = IdleLoop]
    /\ UNCHANGED <<config, breakoutStrategy, now, call, bot, broker, checks>>

NextHours ==
    \/ ScanTradingHours
    \/ ScanRefused
    \/ Return

SpecHours == InitHours /\ [][NextHours]_vars


---------------------------------------------------------------------------
(* The bot with a record of the real-time ticks that returned at a gate     *)
(* while the detector was tracking a breakout: loops["gated"] keeps the     *)
(* time of the last such tick and the start time of the record it left.     *)

NoGatedTick == [pc |-> "idle", time |-> NULL, start |-> NULL]

\* the real-time tick returned at the cooldown, trading-hours or pending-entry gate
\* and never called the detector, which is tracking a breakout
gatedTick ==
    /\ call.op = "gate"
    /\ call.loop = "realtime"
    /\ call.outcome \in {"cooldown", "hours", "pendingSignal"}
    /\ breakoutStrategy.realtimeBreakoutDirection # "none"

InitGated ==
    /\ config = ConfigWith(TRUE, FALSE, FALSE, FALSE)
    /\ breakoutStrategy = loadState(NewStrategy(NoFile))
    /\ now = 1
    /\ call = Idle
    /\ bot = [activePositions |-> NoPositions, lastTradeCloseTime |-> NULL,
              positionsFile |-> NoPositions, cooldownFile |-> NULL]
    /\ broker = [openTrades |-> NoPositions, closed |-> {}, orders |-> 0]
    /\ loops = [l \in {"scan", "realtime", "monitor", "gated"} |->
                  IF l = "gated" THEN NoGatedTick ELSE IdleLoop]
    /\ checks = 0

\* the end of a step, noting a real-time tick that returned at a gate
ReturnGated ==
    /\ call.op # "idle"
    /\ call' = Idle
    /\ loops' = IF gatedTick
                THEN [loops EXCEPT !["gated"] =
                        [pc |-> "idle", time |-> call.time,
                         start |-> breakoutStrategy.realtimeBreakoutTime]]
                ELSE loops
    /\ UNCHANGED <<config, breakoutStrategy, now, bot, broker, checks>>

NextGated ==
    \/ ScanEvaluate
    \/ ScanGuards
    \/ RealtimeGuards
    \/ RealtimePrice
    \/ RealtimeCandles
    \/ CanOpenTrade("scan")
    \/ CanOpenTrade("realtime")
    \/ OrderReply("scan")
    \/ OrderReply("realtime")
    \/ StopReply("scan")
    \/ StopReply("realtime")
    \/ MonitorStart
    \/ MonitorTrade
    \/ MonitorCloseDetails
    \/ BrokerClose
    \/ BotAdvance
    \/ ReturnGated

SpecGated == InitGated /\ [][NextGated]_vars


---------------------------------------------------------------------------
(* The real-time loop while the risk manager blocks every trade and the    *)
(* price stays above the channel: the scans see inside bars only, so the   *)
(* channel they store never moves, and no order is ever submitted.         *)

\* readings of the clock: long enough for two confirmation windows in a row
DiscardMaxClock == 5

\* mid prices above the channel high of $2010
DiscardPrices == {Usd(2011), Usd(2012)}

\* the candles of a scan whose latest bar closed inside the channel
DiscardCandles == {c \in BotCandleInputs : c[Len(c)].close < Usd(2010)}

InitDiscard ==
    /\ config = ConfigWith(FALSE, FALSE, FALSE, FALSE)
    /\ breakoutStrategy = loadState(NewStrategy(NoFile))
    /\ now = 1
    /\ call = Idle
    /\ InitBot
    /\ checks = 0

DiscardAdvance ==
    /\ call.op = "idle"
    /\ now < DiscardMaxClock
    /\ now' = now + 1
    /\ UNCHANGED <<config, breakoutStrategy, call, bot, broker, loops, checks>>

\* riskManager.canOpenTrade answers allowed: false, and the tick returns
RiskRefuses ==
    /\ CanOpenTrade("realtime")
    /\ loops'["realtime"] = IdleLoop

NextDiscard ==
    \/ ScanEvaluateOn(DiscardCandles, BotH1Inputs)
    \/ RealtimeGuards
    \/ RealtimePriceOn(DiscardPrices)
    \/ RealtimeCandles
    \/ RiskRefuses
    \/ DiscardAdvance
    \/ Return

SpecDiscard == InitDiscard /\ [][NextDiscard]_vars


---------------------------------------------------------------------------
(* Properties of the candle-close path (SpecCandle)                        *)

\* the call in `call` is an evaluateSetup that got past the refiner's early return
\* and had enough candles
PastRefiner ==
    /\ call.op = "evaluateSetup"
    /\ ~(call.before.pendingSignal # "none" /\ config.ENABLE_MTF /\ ~call.h1Candles.isNull)
    /\ Len(call.candles) >= BREAKOUT_LOOKBACK + 1

CallLastCandle == call.candles[Len(call.candles)]

\* ... and it saw a bar newer than the remembered one, with a remembered channel
OnNewBar ==
    /\ PastRefiner
    /\ call.before.previousHigh # NULL
    /\ call.before.previousLow # NULL
    /\ call.before.lastCandleTime # CallLastCandle.time

\* C5: a call of evaluateSetup whose latest bar carries the timestamp the strategy
\* already remembers returns no signal with the reason "No new candle" and leaves
\* every field of the strategy (previous channel, last bar timestamp, last
\* direction, all pending state) as it was.
C5_SameBarIsNoOp ==
    (/\ call.op = "evaluateSetup"
     /\ Len(call.candles) >= BREAKOUT_LOOKBACK + 1
     /\ call.before.lastCandleTime = CallLastCandle.time)
    => /\ call.result.signal = "none"
       /\ call.result.reason = "No new candle"
       /\ Fields(breakoutStrategy) = Fields(call.before)

\* C6: for fewer than lookback+1 bars calculateDonchianChannel returns null, and
\* evaluateSetup, when it gets to the channel, returns no signal for insufficient data.
C6_ShortInputIsInsufficient ==
    /\ (call.op = "calculateDonchianChannel" /\ Len(call.candles) < BREAKOUT_LOOKBACK + 1)
       => call.result.isNull
    /\ (/\ call.op = "evaluateSetup"
        /\ ~(call.before.pendingSignal # "none" /\ config.ENABLE_MTF /\ ~call.h1Candles.isNull)
        /\ Len(call.candles) < BREAKOUT_LOOKBACK + 1)
       => /\ call.result.signal = "none"
          /\ call.result.reason = "Insufficient candle data"
          /\ breakoutStrategy = call.before

\* the lookback bars immediately before the newest bar of the call
C17_Preceding ==
    {call.candles[i] : i \in (Len(call.candles) - BREAKOUT_LOOKBACK) .. (Len(call.candles) - 1)}

\* C17: given at least lookback+1 bars, calculateDonchianChannel returns the highest
\* high and the lowest low of the lookback bars immediately before the newest bar,
\* and so does evaluateSetup where it reports a channel; the newest bar and the bars
\* older than the window do not contribute.
C17_ChannelOverPrecedingBars ==
    /\ (call.op = "calculateDonchianChannel" /\ Len(call.candles) >= BREAKOUT_LOOKBACK + 1)
       => /\ ~call.result.isNull
          /\ call.result.high = Max({c.high : c \in C17_Preceding})
          /\ call.result.low = Min({c.low : c \in C17_Preceding})
    /\ (call.op = "evaluateSetup" /\ call.result.channelHigh # NULL)
       => /\ Len(call.candles) >= BREAKOUT_LOOKBACK + 1
          /\ call.result.channelHigh = Max({c.high : c \in C17_Preceding})
          /\ call.result.channelLow = Min({c.low : c \in C17_Preceding})

\* the newest bar reaches beyond the returned channel on both sides
C17_NewestBarExcluded ==
    /\ call.op = "calculateDonchianChannel"
    /\ Len(call.candles) >= BREAKOUT_LOOKBACK + 1
    /\ call.candles[Len(call.candles)].high > call.result.high
    /\ call.candles[Len(call.candles)].low < call.result.low

\* a bar older than the window reaches beyond the returned channel
C17_OlderBarExcluded ==
    /\ call.op = "calculateDonchianChannel"
    /\ Len(call.candles) >= BREAKOUT_LOOKBACK + 2
    /\ call.candles[1].high > call.result.high
    /\ call.candles[1].low < call.result.low

\* evaluateSetup was called with enough bars and a newest bar other than the
\* remembered one
C18_NewBarCall ==
    /\ call.op = "evaluateSetup"
    /\ Len(call.candles) >= BREAKOUT_LOOKBACK + 1
    /\ call.before.lastCandleTime # CallLastCandle.time

\* the strategy remembers the channel and the timestamp of the bar of the call
C18_Remembered ==
    /\ breakoutStrategy.previousHigh = Max({c.high : c \in C17_Preceding})
    /\ breakoutStrategy.previousLow = Min({c.low : c \in C17_Preceding})
    /\ breakoutStrategy.lastCandleTime = CallLastCandle.time

\* C18: after every evaluateSetup call on a new bar with sufficient data, whatever
\* its outcome (signal, filtered, no breakout, waiting on a pending entry), the
\* stored previous channel and last-bar timestamp are those of the bar of the call.
C18_MemoryFollowsEveryBar == C18_NewBarCall => C18_Remembered

\* the same for the calls that get past the refiner's early return
C18_MemoryFollowsBarPastRefiner == (C18_NewBarCall /\ PastRefiner) => C18_Remembered

\* a new bar was seen while an entry was pending, and the memory is still that of an
\* older bar
C18_StaleWhilePending ==
    /\ C18_NewBarCall
    /\ call.result.reason = "Waiting for H1 entry"
    /\ breakoutStrategy.lastCandleTime < CallLastCandle.time
    /\ breakoutStrategy.previousHigh = call.before.previousHigh

\* the five filters of C9, for the bar and the indicators of the call
C9_BodyOk(isLong) ==
    \/ (IF isLong THEN CallLastCandle.close > CallLastCandle.open
        ELSE CallLastCandle.close < CallLastCandle.open)
    \/ (call.analysis.adx # NULL /\ call.analysis.adx > CANDLE_ADX_OVERRIDE)
C9_OscillatorOk(isLong) ==
    \/ call.analysis.rsi = NULL
    \/ (IF isLong THEN call.analysis.rsi <= BREAKOUT_RSI_MAX_LONG
        ELSE call.analysis.rsi >= BREAKOUT_RSI_MIN_SHORT)
    \/ (call.analysis.adx # NULL /\ call.analysis.adx > ADX_OVERRIDE_THRESHOLD)
C9_DistanceOk(isLong) ==
    (IF isLong THEN CallLastCandle.close - call.before.previousHigh
     ELSE call.before.previousLow - CallLastCandle.close) <= pipsToPrice(BREAKOUT_MAX_DISTANCE_FROM_LEVEL)
C9_PositionOk(isLong) ==
    LET range == CallLastCandle.high - CallLastCandle.low
        pos100 == IF range > 0 THEN ((CallLastCandle.close - CallLastCandle.low) * 100) ELSE 50
        scale == IF range > 0 THEN range ELSE 1
    IN  IF isLong THEN pos100 >= BREAKOUT_MIN_CANDLE_POSITION * scale
        ELSE pos100 <= (100 - BREAKOUT_MIN_CANDLE_POSITION) * scale
C9_AllFiltersPass(isLong) ==
    /\ call.analysis.adx # NULL
    /\ call.analysis.adx >= ADX_MIN
    /\ C9_BodyOk(isLong)
    /\ C9_OscillatorOk(isLong)
    /\ C9_DistanceOk(isLong)
    /\ C9_PositionOk(isLong)

\* C9: on a new bar, with pullback refinement disabled, evaluateSetup emits LONG
\* exactly when the close is above the previous channel high and all five filters
\* pass (trend-strength at least the minimum among them), and SHORT exactly when the
\* close is below the previous channel low and the five filters pass.
C9_SignalIffBreakoutAndFilters ==
    (OnNewBar /\ ~config.ENABLE_MTF)
    => /\ call.result.signal = "LONG"
          <=> (CallLastCandle.close > call.before.previousHigh /\ C9_AllFiltersPass(TRUE))
       /\ call.result.signal = "SHORT"
          <=> (CallLastCandle.close < call.before.previousLow /\ C9_AllFiltersPass(FALSE))

\* the example of C9 reaches LONG: prior high 2010, bullish close at 2015, ADX 30
C9_ExampleEmitsLong ==
    /\ OnNewBar
    /\ ~config.ENABLE_MTF
    /\ call.before.previousHigh = Usd(2010)
    /\ CallLastCandle.close = Usd(2015)
    /\ CallLastCandle.close > CallLastCandle.open
    /\ call.analysis.adx = 30
    /\ call.result.signal = "LONG"
    /\ call.result.channelHigh = Usd(2010)

\* the filters in their fixed order, and whether each one fails for the call
FilterOrder == <<"ADX (ranging market)", "candle", "RSI", "distance", "position">>
C10_IsLong == CallLastCandle.close > call.before.previousHigh
C10_Breakout ==
    \/ CallLastCandle.close > call.before.previousHigh
    \/ CallLastCandle.close < call.before.previousLow
C10_Fails(i) ==
    CASE i = 1 -> call.analysis.adx # NULL /\ call.analysis.adx < ADX_MIN
      [] i = 2 -> ~C9_BodyOk(C10_IsLong)
      [] i = 3 -> ~C9_OscillatorOk(C10_IsLong)
      [] i = 4 -> ~C9_DistanceOk(C10_IsLong)
      [] i = 5 -> ~C9_PositionOk(C10_IsLong)
C10_Failing == {i \in 1..5 : C10_Fails(i)}

\* C10: on a breakout bar the filters veto in the order trend-strength, candle body,
\* oscillator, distance, close position: the result names exactly the first filter
\* that fails and none after it, and is no signal; with no failing filter nothing
\* is vetoed. A trend-strength below ADX_MIN yields no signal naming the
\* ranging-market filter.
C10_FirstFailingFilterVetoes ==
    (OnNewBar /\ C10_Breakout)
    => /\ C10_Failing = {}
          => /\ call.result.filters = <<>>
             /\ (call.result.signal # "none" \/ call.result.pendingSignal # "none")
       /\ C10_Failing # {}
          => /\ call.result.filters = <<FilterOrder[Min(C10_Failing)]>>
             /\ call.result.signal = "none"
             /\ call.result.pendingSignal = "none"
             /\ call.result.reason \in {"Bullish breakout", "Bearish breakout"}
       /\ (call.analysis.adx # NULL /\ call.analysis.adx < ADX_MIN)
          => /\ call.result.signal = "none"
             /\ call.result.filters = <<"ADX (ranging market)">>

\* a breakout bar that fails the trend-strength filter and a later one, and is
\* reported with the trend-strength filter only
C10_TwoFailuresOneNamed ==
    /\ OnNewBar
    /\ C10_Breakout
    /\ call.analysis.adx = 15
    /\ Cardinality(C10_Failing) >= 2
    /\ call.result.filters = <<"ADX (ranging market)">>
    /\ call.result.signal = "none"

\* the newest bar of the call breaks out with a body against the breakout
C25_WrongBody ==
    /\ OnNewBar
    /\ C10_Breakout
    /\ IF C10_IsLong THEN CallLastCandle.close <= CallLastCandle.open
       ELSE CallLastCandle.close >= CallLastCandle.open

\* the momentum oscillator is in the exhausted zone of the breakout's direction
C25_Exhausted ==
    /\ call.analysis.rsi # NULL
    /\ IF C10_IsLong THEN call.analysis.rsi > BREAKOUT_RSI_MAX_LONG
       ELSE call.analysis.rsi < BREAKOUT_RSI_MIN_SHORT

\* the trend strength of the call bypasses the oscillator filter, the body filter
C25_OscillatorBypassed ==
    call.analysis.adx # NULL /\ call.analysis.adx > ADX_OVERRIDE_THRESHOLD
C25_BodyBypassed ==
    call.analysis.adx # NULL /\ call.analysis.adx > CANDLE_ADX_OVERRIDE

\* C25: the candle-body filter is bypassed exactly when the momentum-oscillator
\* filter is bypassed: on a breakout bar with a body against the breakout, the body
\* filter vetoes if and only if the trend strength does not bypass the oscillator
\* filter (the trend-strength filter itself passing).
C25_SameOverride ==
    (C25_WrongBody /\ ~C10_Fails(1))
    => (call.result.filters = <<"candle">>) = ~C25_OscillatorBypassed

\* one direction does hold: a trend strength that bypasses the body filter bypasses
\* the oscillator filter too
C25_BodyBypassImpliesOscillatorBypass ==
    call.op = "evaluateSetup" => (C25_BodyBypassed => C25_OscillatorBypassed)

\* a trend strength of 37 with an exhausted oscillator: the oscillator filter is
\* bypassed on a bar with the right body, and the body filter vetoes the other bar
C25_OscillatorBypassedAt37 ==
    /\ OnNewBar
    /\ C10_Breakout
    /\ ~C25_WrongBody
    /\ call.analysis.adx = 37
    /\ C25_Exhausted
    /\ call.result.filters = <<>>
C25_BodyVetoesAt37 ==
    /\ C25_WrongBody
    /\ call.analysis.adx = 37
    /\ call.result.filters = <<"candle">>

---------------------------------------------------------------------------
(* Properties of the refiners and of the real-time detector (SpecRealtime) *)

\* the bar-counted refiner ran on an entry that was pending before the call
C7_BarRefinerRan ==
    /\ call.op = "evaluateSetup"
    /\ call.before.pendingSignal # "none"
    /\ config.ENABLE_MTF
    /\ ~call.h1Candles.isNull

\* its entry conditions: budget left, enough bars, a pullback to the level and a
\* confirming bar
C7_BarEntryMet ==
    LET isLong == call.before.pendingSignal = "LONG"
        h == call.h1Candles.last
        target == IF isLong THEN call.before.pendingBreakoutPrice - pipsToPrice(MTF_PULLBACK_PIPS)
                  ELSE call.before.pendingBreakoutPrice + pipsToPrice(MTF_PULLBACK_PIPS)
        level == IF isLong THEN Max({call.h1Candles.ema, target})
                 ELSE Min({call.h1Candles.ema, target})
    IN  /\ call.before.h1CandlesChecked + 1 <= MTF_MAX_WAIT_CANDLES
        /\ call.h1Candles.length >= MTF_EMA_PERIOD + 5
        /\ IF isLong THEN h.low <= level /\ h.close > h.open
           ELSE h.high >= level /\ h.close < h.open

\* the continuous refiner's entry conditions on the tick of the call
C7_TickEntryMet ==
    LET isLong == call.before.realtimeMTFPending = "LONG"
        old == call.before.realtimeMTFBestPullback
        best == IF old = NULL THEN call.currentPrice
                ELSE IF isLong THEN Min({old, call.currentPrice})
                ELSE Max({old, call.currentPrice})
        pullback == IF isLong THEN call.before.realtimeMTFBreakoutPrice - best
                    ELSE best - call.before.realtimeMTFBreakoutPrice
    IN  /\ call.op = "checkRealtimeMTFEntry"
        /\ call.before.realtimeMTFPending # "none"
        /\ now - call.before.realtimeMTFTime <= MTF_MAX_WAIT_CANDLES * M15_MS
        /\ pullback >= pipsToPrice(MTF_PULLBACK_PIPS)
        /\ IF isLong THEN call.currentPrice > best + bounceMin
           ELSE call.currentPrice < best - bounceMin

C7_Beyond(dir, price, breakoutPrice, tolerance) ==
    IF dir = "LONG" THEN price > breakoutPrice + tolerance ELSE price < breakoutPrice - tolerance

\* C7: in both refiners, entry conditions met with the entry price beyond the
\* tolerance past the breakout price give a still-pending result that keeps the
\* pending direction and breakout price; no entry either refiner emits has a price
\* beyond breakout price plus (LONG) or minus (SHORT) the tolerance.
C7_NeverChase ==
    /\ (/\ C7_BarRefinerRan
        /\ C7_BarEntryMet
        /\ C7_Beyond(call.before.pendingSignal, call.h1Candles.last.close,
                     call.before.pendingBreakoutPrice, maxOvershoot))
       => /\ call.result.signal = "none"
          /\ call.result.pendingSignal = call.before.pendingSignal
          /\ breakoutStrategy.pendingSignal = call.before.pendingSignal
          /\ breakoutStrategy.pendingBreakoutPrice = call.before.pendingBreakoutPrice
    /\ (/\ C7_TickEntryMet
        /\ C7_Beyond(call.before.realtimeMTFPending, call.currentPrice,
                     call.before.realtimeMTFBreakoutPrice, maxOvershootRealtime))
       => /\ call.result.signal = "none"
          /\ call.result.pending
          /\ breakoutStrategy.realtimeMTFPending = call.before.realtimeMTFPending
          /\ breakoutStrategy.realtimeMTFBreakoutPrice = call.before.realtimeMTFBreakoutPrice
          /\ breakoutStrategy.realtimeMTFTime = call.before.realtimeMTFTime
    /\ (call.op = "evaluateSetup" /\ call.result.isMTFEntry)
       => ~C7_Beyond(call.result.signal, call.result.entryPrice,
                     (IF call.before.pendingSignal # "none" /\ ~call.h1Candles.isNull
                      THEN call.before.pendingBreakoutPrice ELSE CallLastCandle.close),
                     maxOvershoot)
    /\ (call.op = "checkRealtimeMTFEntry" /\ call.result.signal # "none")
       => ~C7_Beyond(call.result.signal, call.result.entryPrice,
                     call.before.realtimeMTFBreakoutPrice, maxOvershootRealtime)

\* the continuous refiner met its entry conditions beyond the tolerance and stayed pending
C7_TickChaseStaysPending ==
    /\ C7_TickEntryMet
    /\ C7_Beyond(call.before.realtimeMTFPending, call.currentPrice,
                 call.before.realtimeMTFBreakoutPrice, maxOvershootRealtime)
    /\ call.result.pending
    /\ breakoutStrategy.realtimeMTFPending = call.before.realtimeMTFPending

\* the same for the bar-counted refiner
C7_BarChaseStaysPending ==
    /\ C7_BarRefinerRan
    /\ C7_BarEntryMet
    /\ C7_Beyond(call.before.pendingSignal, call.h1Candles.last.close,
                 call.before.pendingBreakoutPrice, maxOvershoot)
    /\ breakoutStrategy.pendingSignal = call.before.pendingSignal

\* both refiners do emit entries
C7_BarEntryEmitted == call.op = "evaluateSetup" /\ call.result.isMTFEntry
C7_TickEntryEmitted == call.op = "checkRealtimeMTFEntry" /\ call.result.signal # "none"

\* the tick of the call is inside the remembered channel
C8_Inside ==
    /\ call.currentPrice <= call.before.previousHigh
    /\ call.currentPrice >= call.before.previousLow

\* the detector was tracking and the tick came back inside before confirmation
C8_WickCase ==
    /\ call.op = "checkRealtimeBreakout"
    /\ call.before.realtimeBreakoutDirection # "none"
    /\ now - call.before.realtimeBreakoutTime < BREAKOUT_CONFIRMATION_SECONDS
    /\ C8_Inside

C8_TrackingCleared(st) ==
    /\ st.realtimeBreakoutDirection = "none"
    /\ st.realtimeBreakoutTime = NULL
    /\ st.realtimeBreakoutPrice = NULL
    /\ st.realtimeBreakoutLevel = NULL

\* C8: when the detector is tracking a break and a tick finds the price back inside
\* the channel before confirmation, the tracking record is cleared (in memory and
\* in the state file) and the call yields no signal and no pending entry; a call
\* that starts without a tracking record never yields a signal or a pending entry
\* either, so the cleared episode cannot produce one later.
C8_WickFilterClears ==
    /\ C8_WickCase
       => /\ C8_TrackingCleared(breakoutStrategy)
          /\ C8_TrackingCleared(breakoutStrategy.file.state)
          /\ call.result.signal = "none"
          /\ ~call.result.pending
          /\ ~call.result.pendingMTF
          /\ breakoutStrategy.realtimeMTFPending = "none"
          /\ breakoutStrategy.pendingSignal = "none"
    /\ (call.op = "checkRealtimeBreakout" /\ call.before.realtimeBreakoutDirection = "none")
       => /\ call.result.signal = "none"
          /\ ~call.result.pendingMTF
          /\ breakoutStrategy.realtimeMTFPending = "none"
          /\ breakoutStrategy.realtimeBreakoutDirection # "none"
             => breakoutStrategy.realtimeBreakoutTime = now

\* a tracked break was wick-filtered
C8_WickFiltered ==
    /\ C8_WickCase
    /\ C8_TrackingCleared(breakoutStrategy)

\* the improvement of an entry at price over the breakout price
C12_Improvement(dir, price, breakoutPrice) ==
    IF dir = "LONG" THEN breakoutPrice - price ELSE price - breakoutPrice

\* the bar-counted refiner met its entry conditions within the tolerance
C12_BarEntryCase ==
    /\ C7_BarRefinerRan
    /\ C7_BarEntryMet
    /\ ~C7_Beyond(call.before.pendingSignal, call.h1Candles.last.close,
                  call.before.pendingBreakoutPrice, maxOvershoot)

\* the continuous refiner met its entry conditions within the tolerance
C12_TickEntryCase ==
    /\ C7_TickEntryMet
    /\ ~C7_Beyond(call.before.realtimeMTFPending, call.currentPrice,
                  call.before.realtimeMTFBreakoutPrice, maxOvershootRealtime)

C12_PendingSignalCleared(st) ==
    /\ st.pendingSignal = "none"
    /\ st.pendingSignalTime = NULL
    /\ st.pendingBreakoutPrice = NULL
    /\ st.h1CandlesChecked = 0

C12_RealtimeMTFCleared(st) ==
    /\ st.realtimeMTFPending = "none"
    /\ st.realtimeMTFBreakoutPrice = NULL
    /\ st.realtimeMTFTime = NULL
    /\ st.realtimeMTFBestPullback = NULL

\* C12: with an entry pending, once the pullback has reached the target and the
\* price recovers (a confirming bar for the bar-counted refiner, a bounce off the
\* best pullback price for the continuous one) within the tolerance of the breakout
\* price, the refiner emits the pending direction at the recovery price, with
\* improvement = breakout price - entry price for a LONG and entry price - breakout
\* price for a SHORT, and clears its pending-entry state in memory and in the file.
C12_RefinerEmitsAndClears ==
    /\ C12_BarEntryCase
       => /\ call.result.signal = call.before.pendingSignal
          /\ call.result.isMTFEntry
          /\ call.result.entryPrice = call.h1Candles.last.close
          /\ call.result.improvement =
                C12_Improvement(call.before.pendingSignal, call.result.entryPrice,
                                call.before.pendingBreakoutPrice)
          /\ C12_PendingSignalCleared(breakoutStrategy)
          /\ C12_PendingSignalCleared(breakoutStrategy.file.state)
    /\ C12_TickEntryCase
       => /\ call.result.signal = call.before.realtimeMTFPending
          /\ call.result.isRealtimeMTF
          /\ call.result.entryPrice = call.currentPrice
          /\ call.result.improvement =
                C12_Improvement(call.before.realtimeMTFPending, call.result.entryPrice,
                                call.before.realtimeMTFBreakoutPrice)
          /\ C12_RealtimeMTFCleared(breakoutStrategy)
          /\ C12_RealtimeMTFCleared(breakoutStrategy.file.state)

\* the example on the continuous refiner: breakout price 2015, best pullback 2008,
\* recovery to 2011, LONG at 2011 with improvement 4
C12_ExampleTickEntry ==
    /\ C12_TickEntryCase
    /\ call.before.realtimeMTFPending = "LONG"
    /\ call.before.realtimeMTFBreakoutPrice = Usd(2015)
    /\ call.before.realtimeMTFBestPullback = Usd(2008)
    /\ call.currentPrice = Usd(2011)
    /\ call.result.signal = "LONG"
    /\ call.result.entryPrice = Usd(2011)
    /\ call.result.improvement = Usd(4)
    /\ C12_RealtimeMTFCleared(breakoutStrategy)

\* the example on the bar-counted refiner: a bar down to 2008 that closes up at 2011
C12_ExampleBarEntry ==
    /\ C12_BarEntryCase
    /\ call.before.pendingSignal = "LONG"
    /\ call.before.pendingBreakoutPrice = Usd(2015)
    /\ call.h1Candles.last.low = Usd(2008)
    /\ call.result.signal = "LONG"
    /\ call.result.entryPrice = Usd(2011)
    /\ call.result.improvement = Usd(4)
    /\ C12_PendingSignalCleared(breakoutStrategy)

\* the mirrored cases: SHORT entries of both refiners with a positive improvement
C12_ShortBarEntry ==
    /\ C12_BarEntryCase
    /\ call.before.pendingSignal = "SHORT"
    /\ call.before.pendingBreakoutPrice = Usd(1995)
    /\ call.result.signal = "SHORT"
    /\ call.result.entryPrice = Usd(1999)
    /\ call.result.improvement = Usd(4)
C12_ShortTickEntry ==
    /\ C12_TickEntryCase
    /\ call.before.realtimeMTFPending = "SHORT"
    /\ call.result.signal = "SHORT"
    /\ call.result.improvement > 0

\* C15: a process restart between two calls restores the strategy memory, the
\* tracked break and both pending entries to the values held before the restart:
\* every field of the new object equals the field of the old one (so a pending entry
\* continues with the same direction, breakout price and used wait budget, and the
\* remembered bar timestamp is the same).
C15_RestartRestores ==
    [][Restart => Fields(breakoutStrategy') = Fields(breakoutStrategy)]_vars

\* a restart is about to change the used wait budget of a pending entry, or the best
\* pullback price of a real-time pending entry
C15_RestartResetsWaitBudget ==
    /\ call.op = "idle"
    /\ breakoutStrategy.pendingSignal # "none"
    /\ breakoutStrategy.file.state.pendingSignal = breakoutStrategy.pendingSignal
    /\ breakoutStrategy.file.state.h1CandlesChecked < breakoutStrategy.h1CandlesChecked
C15_RestartResetsBestPullback ==
    /\ call.op = "idle"
    /\ hasRealtimeMTFPending(breakoutStrategy)
    /\ breakoutStrategy.file.state.realtimeMTFBestPullback # breakoutStrategy.realtimeMTFBestPullback

\* saveState followed by loadState in a new object gives back every field, and the
\* remembered bar timestamp always is the one in the file
C15_SaveLoadRoundTrip ==
    /\ Fields(loadState(NewStrategy(saveState(breakoutStrategy).file))) = Fields(breakoutStrategy)
    /\ call.op = "idle" => breakoutStrategy.file.state.lastCandleTime = breakoutStrategy.lastCandleTime

\* the call is a tick of the real-time detector with a remembered channel
C22_DetectorRan ==
    /\ call.op = "checkRealtimeBreakout"
    /\ call.before.previousHigh # NULL
    /\ call.before.previousLow # NULL

\* the side of the remembered channel the tick is on
C22_Direction ==
    IF call.currentPrice > call.before.previousHigh THEN "LONG"
    ELSE IF call.currentPrice < call.before.previousLow THEN "SHORT"
    ELSE "none"

C22_Level ==
    IF C22_Direction = "LONG" THEN call.before.previousHigh ELSE call.before.previousLow

\* the tick went through the confirmation: it confirmed the breakout or rejected it
C22_Decided ==
    \/ call.result.signal # "none"
    \/ call.result.pendingMTF
    \/ call.result.reason = "breakout confirmed but filtered"

\* the tick continues the tracked direction
C22_SameDirection ==
    /\ C22_DetectorRan
    /\ C22_Direction # "none"
    /\ call.before.realtimeBreakoutDirection = C22_Direction

\* the tick is outside the channel on the side opposite to the tracked direction
C22_Flip ==
    /\ C22_DetectorRan
    /\ C22_Direction # "none"
    /\ call.before.realtimeBreakoutDirection \notin {"none", C22_Direction}

\* C22: the real-time detector decides on a breakout only when the confirmation
\* window has elapsed since the start of the tracking in that direction; every
\* earlier tick in the tracked direction returns pending and leaves the tracking
\* record as it is; a tick in the opposite direction returns pending and restarts
\* the tracking with the time, price and level of that tick.
C22_ConfirmsOnlyAfterWindow ==
    /\ (C22_DetectorRan /\ C22_Decided)
       => /\ C22_SameDirection
          /\ now - call.before.realtimeBreakoutTime >= BREAKOUT_CONFIRMATION_SECONDS
    /\ (C22_SameDirection /\ now - call.before.realtimeBreakoutTime < BREAKOUT_CONFIRMATION_SECONDS)
       => /\ call.result.pending
          /\ call.result.signal = "none"
          /\ ~call.result.pendingMTF
          /\ breakoutStrategy = call.before
    /\ C22_Flip
       => /\ call.result.pending
          /\ call.result.signal = "none"
          /\ ~call.result.pendingMTF
          /\ breakoutStrategy.realtimeBreakoutDirection = C22_Direction
          /\ breakoutStrategy.realtimeBreakoutTime = now
          /\ breakoutStrategy.realtimeBreakoutPrice = call.currentPrice
          /\ breakoutStrategy.realtimeBreakoutLevel = C22_Level

\* a tick in the opposite direction, later than the start of the tracking it replaces
C22_FlipRestarts ==
    /\ C22_Flip
    /\ call.before.realtimeBreakoutTime < now
    /\ breakoutStrategy.realtimeBreakoutTime = now

\* a tick inside the window of a tracked direction, after time has passed
C22_EarlyTickPending ==
    /\ C22_SameDirection
    /\ 0 < now - call.before.realtimeBreakoutTime
    /\ now - call.before.realtimeBreakoutTime < BREAKOUT_CONFIRMATION_SECONDS
    /\ call.result.pending

\* a tick that confirms a breakout whose tracking was restarted by a flip
C22_ConfirmedAtWindow ==
    /\ C22_SameDirection
    /\ C22_Decided
    /\ now - call.before.realtimeBreakoutTime = BREAKOUT_CONFIRMATION_SECONDS
    /\ call.before.realtimeBreakoutTime > 1

\* the tick continues the tracked direction at or after the confirmation window
C23_AtWindow ==
    /\ C22_SameDirection
    /\ now - call.before.realtimeBreakoutTime >= BREAKOUT_CONFIRMATION_SECONDS

\* the price has reversed past the price of the first detection
C23_Reversed ==
    IF C22_Direction = "LONG" THEN call.currentPrice < call.before.realtimeBreakoutPrice
    ELSE call.currentPrice > call.before.realtimeBreakoutPrice

C23_TrendStrengthFails == call.analysis.adx # NULL /\ call.analysis.adx < ADX_MIN

C23_Override == call.analysis.adx # NULL /\ call.analysis.adx > ADX_OVERRIDE_THRESHOLD

C23_MomentumFails ==
    /\ call.analysis.rsi # NULL
    /\ ~C23_Override
    /\ IF C22_Direction = "LONG" THEN call.analysis.rsi > BREAKOUT_RSI_MAX_LONG
       ELSE call.analysis.rsi < BREAKOUT_RSI_MIN_SHORT

C23_DistanceFails ==
    (IF C22_Direction = "LONG" THEN call.currentPrice - call.before.previousHigh
     ELSE call.before.previousLow - call.currentPrice)
        > pipsToPrice(BREAKOUT_MAX_DISTANCE_FROM_LEVEL)

C23_TrackingCleared(st) ==
    /\ st.realtimeBreakoutDirection = "none"
    /\ st.realtimeBreakoutTime = NULL
    /\ st.realtimeBreakoutPrice = NULL
    /\ st.realtimeBreakoutLevel = NULL

\* C23: on a tick of the tracked direction at or after the confirmation window, a
\* price reversed past the detection price or a failing trend-strength, momentum
\* or distance filter rejects the breakout (no signal, no pending entry), and the
\* tracking record is cleared whether the tick confirms or rejects.
C23_RejectsAndClears ==
    C23_AtWindow =>
        /\ (C23_Reversed \/ C23_TrendStrengthFails \/ C23_MomentumFails \/ C23_DistanceFails)
           => /\ call.result.signal = "none"
              /\ ~call.result.pending
              /\ ~call.result.pendingMTF
              /\ ~hasRealtimeMTFPending(breakoutStrategy)
              /\ breakoutStrategy.pendingSignal = "none"
        /\ C23_TrackingCleared(breakoutStrategy)
        /\ breakoutStrategy.file.exists
        /\ C23_TrackingCleared(breakoutStrategy.file.state)

\* a fakeout: all filters pass but the price is back behind the detection price
C23_FakeoutRejected ==
    /\ C23_AtWindow
    /\ C23_Reversed
    /\ ~(C23_TrendStrengthFails \/ C23_MomentumFails \/ C23_DistanceFails)
    /\ call.result.signal = "none"
    /\ C23_TrackingCleared(breakoutStrategy)

\* rejections by each of the three filters alone, and a confirmation
C23_TrendStrengthRejected ==
    C23_AtWindow /\ C23_TrendStrengthFails /\ ~(C23_Reversed \/ C23_MomentumFails \/ C23_DistanceFails)
C23_MomentumRejected ==
    C23_AtWindow /\ C23_MomentumFails /\ ~(C23_Reversed \/ C23_TrendStrengthFails \/ C23_DistanceFails)
C23_DistanceRejected ==
    C23_AtWindow /\ C23_DistanceFails /\ ~(C23_Reversed \/ C23_TrendStrengthFails \/ C23_MomentumFails)
C23_ConfirmedAndCleared ==
    /\ C23_AtWindow
    /\ (call.result.signal # "none" \/ call.result.pendingMTF)
    /\ C23_TrackingCleared(breakoutStrategy)

\* the tick continues the tracked direction at or after the window and nothing rejects it
C24_Passes ==
    /\ C23_AtWindow
    /\ ~(C23_Reversed \/ C23_TrendStrengthFails \/ C23_MomentumFails \/ C23_DistanceFails)

\* C24: a tracked breakout that passes all checks at or after the window gives, with
\* pullback refinement disabled, a signal in its direction with the current price as
\* entry price and no pending entry; with pullback refinement enabled, no signal and
\* a real-time pending entry of that direction whose breakout price and best
\* pullback are the current price and whose start time is the time of the tick.
C24_EmitsOrHandsOff ==
    C24_Passes =>
        IF ~config.ENABLE_MTF
        THEN /\ call.result.signal = C22_Direction
             /\ call.result.entryPrice = call.currentPrice
             /\ call.result.isRealtime
             /\ ~call.result.pendingMTF
             /\ ~hasRealtimeMTFPending(breakoutStrategy)
        ELSE /\ call.result.signal = "none"
             /\ call.result.pendingMTF
             /\ breakoutStrategy.realtimeMTFPending = C22_Direction
             /\ breakoutStrategy.realtimeMTFBreakoutPrice = call.currentPrice
             /\ breakoutStrategy.realtimeMTFTime = now
             /\ breakoutStrategy.realtimeMTFBestPullback = call.currentPrice

\* a confirmation handed to the refiner at a price other than that of the first
\* detection
C24_HandedOff ==
    /\ C24_Passes
    /\ config.ENABLE_MTF
    /\ call.currentPrice # call.before.realtimeBreakoutPrice
    /\ breakoutStrategy.realtimeMTFBreakoutPrice = call.currentPrice

\* a confirmation emitted directly
C24_EmittedDirectly ==
    /\ C24_Passes
    /\ ~config.ENABLE_MTF
    /\ call.result.signal = "SHORT"
    /\ call.result.entryPrice = call.currentPrice

\* a detection call (candle close past the refiner, or real-time tick) for which
\* the trend-strength indicator is unavailable
C26_NoTrendStrength ==
    /\ (PastRefiner \/ call.op = "checkRealtimeBreakout")
    /\ call.analysis.adx = NULL

\* C26: when the trend-strength indicator is unavailable, both detection paths
\* return a soft no-signal result: no signal is emitted and no pending entry is
\* created.
C26_NullTrendStrengthIsSoft ==
    C26_NoTrendStrength =>
        /\ call.result.signal = "none"
        /\ ~call.result.pendingMTF
        /\ breakoutStrategy.pendingSignal = call.before.pendingSignal
        /\ breakoutStrategy.realtimeMTFPending = call.before.realtimeMTFPending

\* with the indicator unavailable the real-time detector confirmed a breakout; the
\* candle-close path emitted a signal or created a pending entry
C26_RealtimeConfirmedWithoutTrendStrength ==
    /\ call.op = "checkRealtimeBreakout"
    /\ call.analysis.adx = NULL
    /\ (call.result.signal # "none" \/ call.result.pendingMTF)
C26_CandleSignalWithoutTrendStrength ==
    /\ PastRefiner
    /\ call.analysis.adx = NULL
    /\ (call.result.signal # "none" \/ breakoutStrategy.pendingSignal # "none")

\* the bar-counted refiner emitted an entry for the pending entry of the call
C27_BarEntry == C7_BarRefinerRan /\ call.result.isMTFEntry

\* how far the bar of the call came back from the breakout price
C27_BarRetracement ==
    IF call.before.pendingSignal = "LONG"
    THEN call.before.pendingBreakoutPrice - call.h1Candles.last.low
    ELSE call.h1Candles.last.high - call.before.pendingBreakoutPrice

\* the distance from the breakout price to the anchor moving average
C27_DistanceToAnchor ==
    IF call.before.pendingSignal = "LONG"
    THEN call.before.pendingBreakoutPrice - call.h1Candles.ema
    ELSE call.h1Candles.ema - call.before.pendingBreakoutPrice

\* the continuous refiner emitted an entry
C27_TickEntry == call.op = "checkRealtimeMTFEntry" /\ call.result.signal # "none"

\* the deepest retracement the continuous refiner has seen, the tick of the call
\* included
C27_TickRetracement ==
    LET isLong == call.before.realtimeMTFPending = "LONG"
        old == call.before.realtimeMTFBestPullback
        best == IF old = NULL THEN call.currentPrice
                ELSE IF isLong THEN Min({old, call.currentPrice})
                ELSE Max({old, call.currentPrice})
    IN  IF isLong THEN call.before.realtimeMTFBreakoutPrice - best
        ELSE best - call.before.realtimeMTFBreakoutPrice

\* C27: an entry of either refiner fires only when the retracement from the
\* breakout price is at least the required pullback: for the bar-counted refiner
\* the larger of the distance to the anchor moving average and the fixed minimum
\* pullback, for the continuous refiner (which is given no moving average) the
\* fixed minimum pullback.
C27_EntryNeedsRequiredPullback ==
    /\ C27_BarEntry
       => C27_BarRetracement >= Max({C27_DistanceToAnchor, pipsToPrice(MTF_PULLBACK_PIPS)})
    /\ C27_TickEntry => C27_TickRetracement >= pipsToPrice(MTF_PULLBACK_PIPS)

\* what the bar-counted refiner requires: the smaller of the two
C27_BarEntryNeedsSmallerOfTwo ==
    C27_BarEntry
       => C27_BarRetracement >= Min({C27_DistanceToAnchor, pipsToPrice(MTF_PULLBACK_PIPS)})

\* the continuous refiner requires the fixed minimum
C27_TickEntryNeedsMinimum ==
    C27_TickEntry => C27_TickRetracement >= pipsToPrice(MTF_PULLBACK_PIPS)

\* an entry of the bar-counted refiner on a bar that did not come back from the
\* breakout price at all, the moving average being beyond the breakout price
C27_BarEntryWithoutRetracement ==
    /\ C27_BarEntry
    /\ C27_BarRetracement <= 0
    /\ C27_DistanceToAnchor < 0

\* an entry of the bar-counted refiner on a retracement that reaches the fixed
\* minimum but is far from the moving average
C27_BarEntryShortOfAnchor ==
    /\ C27_BarEntry
    /\ C27_BarRetracement >= pipsToPrice(MTF_PULLBACK_PIPS)
    /\ C27_BarRetracement < C27_DistanceToAnchor

\* the bar-counted refiner is called with the wait budget used up
C28_BarBudgetUsedUp ==
    /\ C7_BarRefinerRan
    /\ call.before.h1CandlesChecked >= MTF_MAX_WAIT_CANDLES

\* the continuous refiner is called after the maximum elapsed time
C28_TickTimeUp ==
    /\ call.op = "checkRealtimeMTFEntry"
    /\ call.before.realtimeMTFPending # "none"
    /\ now - call.before.realtimeMTFTime > MTF_MAX_WAIT_CANDLES * M15_MS

\* the bar-counted refiner clears all pending state with no signal once its counter
\* has reached the budget
C28_BarTimeoutClears ==
    C28_BarBudgetUsedUp
       => /\ call.result.signal = "none"
          /\ ~call.result.isMTFEntry
          /\ C12_PendingSignalCleared(breakoutStrategy)
          /\ C12_PendingSignalCleared(breakoutStrategy.file.state)

\* the continuous refiner clears all pending state with no signal at the first
\* check after the maximum elapsed time
C28_TickTimeoutClears ==
    C28_TickTimeUp
       => /\ call.result.signal = "none"
          /\ ~call.result.pending
          /\ C12_RealtimeMTFCleared(breakoutStrategy)
          /\ C12_RealtimeMTFCleared(breakoutStrategy.file.state)

\* C28: a pending entry never outlives its budget: at most MTF_MAX_WAIT_CANDLES
\* evaluations check a pending candle-close entry for an entry, and the evaluation
\* after the budget clears all pending state with no signal; the continuous
\* refiner clears all pending state with no signal at the first check after the
\* maximum elapsed time.
C28_PendingWithinBudget ==
    /\ checks <= MTF_MAX_WAIT_CANDLES
    /\ call.op = "evaluateSetup" => call.checks <= MTF_MAX_WAIT_CANDLES
    /\ C28_BarTimeoutClears
    /\ C28_TickTimeoutClears

\* a pending candle-close entry checked more often than the budget allows, and
\* still pending
C28_CheckedBeyondBudget ==
    /\ checks > MTF_MAX_WAIT_CANDLES
    /\ breakoutStrategy.pendingSignal # "none"

\* an entry emitted by a check beyond the budget
C28_EntryBeyondBudget ==
    /\ C27_BarEntry
    /\ call.checks > MTF_MAX_WAIT_CANDLES

\* both timeouts happen
C28_BarTimedOut == C28_BarBudgetUsedUp /\ C12_PendingSignalCleared(breakoutStrategy)
C28_TickTimedOut == C28_TickTimeUp /\ C12_RealtimeMTFCleared(breakoutStrategy)

---------------------------------------------------------------------------
(* Properties of the bot's loops (Spec) and of the monitor (SpecMonitor)    *)

\* C1: under every interleaving of the scan tick, the real-time tick and the monitor
\* tick the instrument never has more than one open position, and no loop has an
\* entry order in flight while a position is open or another order is in flight.
C1_AtMostOnePosition ==
    Cardinality(DOMAIN broker.openTrades)
        + Cardinality({l \in {"scan", "realtime"} : InFlight(l)}) <= 1

\* two positions are open on the account at once
C1_TwoOpenPositions == Cardinality(DOMAIN broker.openTrades) >= 2

\* C2: while a position is open, the real-time tracking record and both pending
\* entries (candle-close and real-time) are null.
C2_PositionExcludesPending ==
    hasPosition(broker) =>
        /\ breakoutStrategy.realtimeBreakoutDirection = "none"
        /\ breakoutStrategy.pendingSignal = "none"
        /\ ~hasRealtimeMTFPending(breakoutStrategy)

\* C3: whatever prices the monitor sees, the tracked stop of a LONG position never
\* goes down and the tracked stop of a SHORT position never goes up.
C3_StopRatchets ==
    [][\A id \in DOMAIN bot.activePositions \cap DOMAIN bot'.activePositions :
          LET p == bot.activePositions[id]
              q == bot'.activePositions[id]
          IN  /\ p.signal = "LONG" => q.currentStopLoss >= p.currentStopLoss
              /\ p.signal = "SHORT" => q.currentStopLoss <= p.currentStopLoss]_vars

\* a LONG whose stop has been trailed up sees a price below its best price, and the
\* stop stays where it was
C3_PriceFallsStopStays ==
    /\ call.op = "monitorTrade"
    /\ call.before.signal = "LONG"
    /\ call.before.currentStopLoss > call.before.stopLoss
    /\ call.price < call.before.bestPrice
    /\ call.after.currentStopLoss = call.before.currentStopLoss

\* the same for a SHORT whose stop has been trailed down
C3_PriceRisesStopStays ==
    /\ call.op = "monitorTrade"
    /\ call.before.signal = "SHORT"
    /\ call.before.currentStopLoss < call.before.stopLoss
    /\ call.price > call.before.bestPrice
    /\ call.after.currentStopLoss = call.before.currentStopLoss

\* C4: when the timer holds a close time t and the cooldown D is positive, a tick of
\* either entry path that reaches its gates before t + D ends there without an order
\* (rejected for the open position or for the cooldown), and a tick that reaches them
\* at or after t + D is not rejected for the cooldown.
C4_CooldownGate ==
    (call.op = "gate" /\ call.timer # NULL /\ TRADE_COOLDOWN_HOURS > 0) =>
        /\ call.time < call.timer + TRADE_COOLDOWN_HOURS =>
              /\ call.outcome \in {"position", "cooldown"}
              /\ loops[call.loop].pc = "idle"
        /\ call.time >= call.timer + TRADE_COOLDOWN_HOURS => call.outcome # "cooldown"

\* a real-time tick is rejected by the cooldown alone
C4_RejectedByCooldown ==
    /\ call.op = "gate"
    /\ call.loop = "realtime"
    /\ call.outcome = "cooldown"
    /\ call.time < call.timer + TRADE_COOLDOWN_HOURS

\* a scan tick is rejected by the cooldown alone
C4_ScanRejectedByCooldown ==
    /\ call.op = "gate"
    /\ call.loop = "scan"
    /\ call.outcome = "cooldown"

\* a tick passes the gates once the cooldown has run out
C4_AllowedAfterCooldown ==
    /\ call.op = "gate"
    /\ call.timer # NULL
    /\ call.time >= call.timer + TRADE_COOLDOWN_HOURS
    /\ call.outcome = "passed"

\* C13: the candle-close pending entry (pendingSignal) and the state of the
\* real-time pipeline (a tracked break or a pending real-time entry) are never
\* both non-null, whichever loop creates its state first.
C13_OnePipeline ==
    breakoutStrategy.pendingSignal # "none" =>
        /\ breakoutStrategy.realtimeBreakoutDirection = "none"
        /\ ~hasRealtimeMTFPending(breakoutStrategy)

\* a candle-close entry and a real-time entry are pending together
C13_BothEntriesPending ==
    /\ breakoutStrategy.pendingSignal # "none"
    /\ hasRealtimeMTFPending(breakoutStrategy)

\* a candle-close entry is pending while the real-time detector tracks a break
C13_PendingWhileTracking ==
    /\ breakoutStrategy.pendingSignal # "none"
    /\ breakoutStrategy.realtimeBreakoutDirection # "none"

\* every loop is between two ticks
C14_BetweenTicks ==
    /\ call.op = "idle"
    /\ \A l \in DOMAIN loops : loops[l].pc = "idle"

\* C14: when the ticks have ended, every stateful field (strategy memory, last
\* direction, tracked break, both pending entries with wait budget and best
\* pullback price, the positions with bestPrice and currentStopLoss, the cooldown
\* timestamp) equals its value in the persisted snapshot.
C14_PersistedAtTickEnd ==
    C14_BetweenTicks =>
        /\ Fields(breakoutStrategy) = breakoutStrategy.file.state
        /\ bot.activePositions = bot.positionsFile
        /\ bot.lastTradeCloseTime = bot.cooldownFile

\* between ticks, the fields that differ from the state file
C14_Unsaved == {k \in StateKeys : breakoutStrategy[k] # breakoutStrategy.file.state[k]}

\* the used wait budget of the candle-close pending entry is ahead of the file
C14_WaitBudgetUnsaved == C14_BetweenTicks /\ "h1CandlesChecked" \in C14_Unsaved
\* the best pullback price of the real-time pending entry is not in the file
C14_BestPullbackUnsaved == C14_BetweenTicks /\ "realtimeMTFBestPullback" \in C14_Unsaved
\* the last direction is not in the file
C14_LastSignalUnsaved == C14_BetweenTicks /\ "lastSignal" \in C14_Unsaved
\* the best price of a position is not in the positions file
C14_BestPriceUnsaved ==
    /\ C14_BetweenTicks
    /\ \E id \in DOMAIN bot.activePositions \cap DOMAIN bot.positionsFile :
         bot.activePositions[id].bestPrice # bot.positionsFile[id].bestPrice

\* C16: every step in which the monitor handles a tracked position it found missing
\* from the open trades (the reply, or the failure, of the request for the closed
\* trade's details) arms the cooldown timer, in memory and in the cooldown file.
C16_ClosureArmsCooldown ==
    [][(loops["monitor"].pc = "closeDetails" /\ loops'["monitor"] # loops["monitor"])
       => (bot'.lastTradeCloseTime = now /\ bot'.cooldownFile = now)]_vars

\* a position was closed by the account and dropped by the monitor, and the timer
\* was never armed
C16_ClosedWithoutCooldown ==
    /\ \A l \in DOMAIN loops : loops[l].pc = "idle"
    /\ broker.closed # {}
    /\ broker.closed \cap DOMAIN bot.activePositions = {}
    /\ DOMAIN broker.openTrades = {}
    /\ bot.lastTradeCloseTime = NULL

\* a step of the scan tick from its start: the strategy is evaluated on the candles
C19_ScanEvaluateStep ==
    /\ call.op = "idle"
    /\ loops["scan"].pc = "idle"
    /\ \A l \in {"realtime", "monitor"} : loops'[l] = loops[l]
    /\ <<call, bot, broker, now>>' = <<call, bot, broker, now>>

\* a step of the real-time tick after its guards: the replies of getPrice and getCandles
C19_RealtimeStep ==
    /\ call.op = "idle"
    /\ loops["realtime"].pc \in {"getPrice", "getCandles"}
    /\ loops'["realtime"] # loops["realtime"]

C19_Guarded == hasPosition(broker) \/ checkTradeCooldown(bot, now)

\* C19: a tick verifies the guards (open position, cooldown) before it changes any
\* strategy state: the candle-scan tick leaves the strategy as it is, pending entries
\* and channel memory included, while a position is open or the cooldown is active
C19_ScanMutatesNothingWhileGuarded ==
    [][(C19_ScanEvaluateStep /\ C19_Guarded) => breakoutStrategy' = breakoutStrategy]_vars

\* the same for the steps of the real-time tick that follow its awaits
C19_RealtimeMutatesNothingWhileGuarded ==
    [][(C19_RealtimeStep /\ C19_Guarded) => breakoutStrategy' = breakoutStrategy]_vars

\* the guards of the real-time tick are the first thing it does: a tick that starts
\* with a position open or the cooldown active ends at once
C19_RealtimeGuardsAtTop ==
    [][(loops["realtime"].pc = "idle" /\ loops'["realtime"] # loops["realtime"])
       => ~C19_Guarded]_vars

\* the stop in force on the account for a tracked position never loosens between
\* two states of the account
C20_Tightens(id) ==
    LET p == bot.activePositions[id]
        stop == broker.openTrades[id].stopLoss
        stop2 == broker'.openTrades[id].stopLoss
    IN  /\ p.signal = "LONG" => stop2 >= stop
        /\ p.signal = "SHORT" => stop2 <= stop

\* C20: while a recorded position is open, no stop modification of the bot loosens
\* the stop in force on the account (LONG: never lower, SHORT: never higher), the
\* move to breakeven at the first target included.
C20_BrokerStopOnlyTightens ==
    [][\A id \in DOMAIN bot.activePositions \cap DOMAIN broker.openTrades
                  \cap DOMAIN broker'.openTrades : C20_Tightens(id)]_vars

\* the same for the ticks on which the first target is not reached: the trailing
\* block alone
C20_TrailingOnlyTightens ==
    [][\A id \in DOMAIN bot.activePositions \cap DOMAIN bot'.activePositions
                  \cap DOMAIN broker.openTrades \cap DOMAIN broker'.openTrades :
          bot'.activePositions[id].tp1Hit = bot.activePositions[id].tp1Hit
             => C20_Tightens(id)]_vars

\* the first target was hit and the stop on the account is at the entry price while
\* the bot tracks a stop that was trailed past it
C20_BreakevenBehindTrailedStop ==
    \E id \in DOMAIN bot.activePositions \cap DOMAIN broker.openTrades :
        LET p == bot.activePositions[id]
            stop == broker.openTrades[id].stopLoss
        IN  /\ p.tp1Hit
            /\ stop = p.entryPrice
            /\ IF p.signal = "LONG" THEN p.currentStopLoss > stop ELSE p.currentStopLoss < stop

\* the units left of a filled position after one partial close at the first target
C21_UnitsAfterOneClose == PositionUnits - (PositionUnits * 6) \div 10

\* C21: the partial close at the first target is executed at most once per position:
\* an open trade holds either the units of its fill or what one partial close leaves.
C21_PartialCloseAtMostOnce ==
    \A id \in DOMAIN broker.openTrades :
        Abs(broker.openTrades[id].units) \in {PositionUnits, C21_UnitsAfterOneClose}

\* once the flag tp1Hit is set for a position, the bot closes no more units of it
C21_FlagStopsPartialClose ==
    [][\A id \in DOMAIN bot.activePositions \cap DOMAIN broker.openTrades
                  \cap DOMAIN broker'.openTrades :
          bot.activePositions[id].tp1Hit
             => broker'.openTrades[id].units = broker.openTrades[id].units]_vars

\* a position partially closed twice, with the flag still unset
C21_ClosedTwice ==
    \E id \in DOMAIN bot.activePositions \cap DOMAIN broker.openTrades :
        /\ Abs(broker.openTrades[id].units) < C21_UnitsAfterOneClose
        /\ ~bot.activePositions[id].tp1Hit

C29_CandlePendingCleared ==
    (breakoutStrategy.pendingSignal # "none") ~> (breakoutStrategy.pendingSignal = "none")

\* C29, the continuous half where the gates of the real-time tick open again and again
\* (checked under SpecPendingOpen)
C29_TickPendingClearedWhenOpen ==
    (breakoutStrategy.realtimeMTFPending # "none")
        ~> (breakoutStrategy.realtimeMTFPending = "none")

\* C29: a real-time tick stopped at the trading-hours guard leaves a continuous entry
\* pending although its time is up
C29_TickPendingOutlivesItsTime ==
    /\ call.op = "gate" /\ call.loop = "realtime" /\ call.outcome = "hours"
    /\ breakoutStrategy.realtimeMTFPending # "none"
    /\ now - breakoutStrategy.realtimeMTFTime > MTF_MAX_WAIT_CANDLES * M15_MS

\* the reply to an order of loop l is being handled
C30_Reply(l) == call.op = "orderReply" /\ call.loop = l

\* the stop of the levels moved away from the entry by the configured amount
C30_Widened ==
    IF call.signal = "LONG"
    THEN call.levelsStopLoss - pipsToPrice(ORDER_RETRY_WIDEN_SL_PIPS)
    ELSE call.levelsStopLoss + pipsToPrice(ORDER_RETRY_WIDEN_SL_PIPS)

\* the attempt of loop l has ended and has recorded no position
C30_EndedWithoutPosition(l) ==
    loops[l] = IdleLoop /\ bot.activePositions = call.positions

\* C30, the replies: with retry enabled a retriable rejection of the first order is
\* followed by the retry, which carries the stop widened by ORDER_RETRY_WIDEN_SL_PIPS;
\* only a failure of that retry is followed by the order without protective orders,
\* whose fill is followed by attaching a stop and whose failure ends the attempt; a
\* rejection of the first order with another reason ends the attempt with no position
C30_Replies ==
    \A l \in {"scan", "realtime"} : C30_Reply(l) =>
        /\ call.order = "placeMarketOrder" =>
             /\ call.stopLoss = call.levelsStopLoss
             /\ (call.outcome = "retriable" /\ config.ENABLE_ORDER_RETRY)
                    => loops[l].pc = "retryWiderSL"
             /\ call.outcome = "rejected" => C30_EndedWithoutPosition(l)
        /\ call.order = "retryWiderSL" =>
             /\ config.ENABLE_ORDER_RETRY
             /\ call.stopLoss = C30_Widened
             /\ call.outcome # "filled" => loops[l].pc = "retryNoSL"
             /\ call.outcome = "filled" => loops[l].pc # "retryNoSL"
        /\ call.order = "retryNoSL" =>
             /\ call.stopLoss = NULL
             /\ call.outcome = "filled" =>
                    /\ loops[l].pc = "attachSL"
                    /\ loops[l].tradeId \in DOMAIN broker.openTrades
             /\ call.outcome # "filled" => C30_EndedWithoutPosition(l)

\* C30, the order of the submissions: the first order is submitted by executeTrade
\* only, the retry follows the first order only, the order without protective orders
\* follows the retry only, and no submission follows it
C30_Submissions ==
    \A l \in {"scan", "realtime"} :
        /\ loops'[l].pc = "placeMarketOrder"
              => loops[l].pc \in {"canOpenTrade", "placeMarketOrder"}
        /\ loops'[l].pc = "retryWiderSL"
              => loops[l].pc \in {"placeMarketOrder", "retryWiderSL"}
        /\ loops'[l].pc = "retryNoSL"
              => loops[l].pc \in {"retryWiderSL", "retryNoSL"}
        /\ loops[l].pc = "retryNoSL"
              => loops'[l].pc \in {"retryNoSL", "attachSL", "idle"}

\* C30: when an order is rejected with a retriable reason and retry is enabled,
\* executeTrade makes exactly one retry with the stop widened by the configured amount
\* and, only if that also fails, one submission with no protective orders followed by
\* attaching a stop right after the fill, at most three submissions in total; a
\* rejection with a non-retriable reason ends the attempt after the first submission
\* with no position recorded.
C30_RetryOnceThenUnprotected == []C30_Replies /\ [][C30_Submissions]_vars

\* C30: the third submission, without protective orders, was filled and the stop is
\* being attached
C30_ThirdSubmissionFilled ==
    /\ C30_Reply("scan")
    /\ call.order = "retryNoSL" /\ call.outcome = "filled"
    /\ loops["scan"].pc = "attachSL"

\* C30: the first order was rejected with a non-retriable reason and the attempt ended
C30_TerminalRejection ==
    /\ C30_Reply("realtime")
    /\ call.order = "placeMarketOrder" /\ call.outcome = "rejected"
    /\ config.ENABLE_ORDER_RETRY
    /\ loops["realtime"] = IdleLoop

\* the position with the given id is recorded by this step
C31_Recorded(id) ==
    /\ id \notin DOMAIN bot.activePositions
    /\ id \in DOMAIN bot'.activePositions

\* the levels calculateEntryLevels gives for an entry at the position's fill price
C31_LevelsAt(p) == calculateEntryLevels([price |-> p.entryPrice], p.signal, NULL)

\* the fill price the broker keeps for the trade while it is open
C31_FillPrice(id) ==
    IF id \in DOMAIN broker'.openTrades THEN broker'.openTrades[id].price
    ELSE bot'.activePositions[id].entryPrice

\* C31: after a confirmed fill, the protective levels recorded for the position are
\* anchored to the actual fill price, not to the signal price: the stop is the fixed
\* stop distance from the fill price and targets 1 and 2 are the configured reward
\* multiples of that distance from the fill price.
C31_LevelsAnchoredToFill ==
    [][\A id \in DOMAIN bot'.activePositions :
          C31_Recorded(id) =>
             LET p == bot'.activePositions[id]
             IN  /\ p.entryPrice = C31_FillPrice(id)
                 /\ p.stopLoss = C31_LevelsAt(p).stopLoss
                 /\ p.takeProfit1 = C31_LevelsAt(p).takeProfit1
                 /\ p.takeProfit2 = C31_LevelsAt(p).takeProfit2]_vars

\* C31: what holds of a recorded position: its entry price is the fill price and its
\* current stop is its recorded stop
C31_EntryIsFill ==
    [][\A id \in DOMAIN bot'.activePositions :
          C31_Recorded(id) =>
             LET p == bot'.activePositions[id]
             IN  /\ p.entryPrice = C31_FillPrice(id)
                 /\ p.bestPrice = p.entryPrice
                 /\ p.currentStopLoss = p.stopLoss]_vars

\* C31: the targets of a recorded position are those of the signal price
C31_TargetsOfSignalPrice ==
    [][\A id \in DOMAIN bot'.activePositions :
          C31_Recorded(id) =>
             \E l \in {"scan", "realtime"} :
                /\ loops[l].pc # "idle" /\ loops'[l].pc = "idle"
                /\ bot'.activePositions[id].takeProfit1 = loops[l].takeProfit1
                /\ bot'.activePositions[id].takeProfit2 = loops[l].takeProfit2
                /\ loops[l].takeProfit1 =
                     calculateEntryLevels([price |-> loops[l].entryPrice], loops[l].signal, NULL).takeProfit1]_vars

\* the open trades the monitor tick in progress got from the account
C32_Snapshot == loops["monitor"].snapshot

\* the step ends a monitor tick
C32_TickEnds == loops["monitor"].pc # "idle" /\ loops'["monitor"].pc = "idle"

\* the step ends a monitor tick after its last await, not by an error
C32_TickCompletes ==
    /\ C32_TickEnds
    /\ ~(loops["monitor"].pc = "getPrice" /\ call' = call)

\* the step ends the reconciliation of start() that got the open trades
C32_SyncEnds ==
    /\ ~Started /\ Started'
    /\ loops'["start"].reason = ""

\* after the step no position tracked in memory or in the file is missing from the
\* list of open trades
C32_Reconciled(openTrades) ==
    /\ DOMAIN bot'.activePositions \subseteq DOMAIN openTrades
    /\ DOMAIN bot'.positionsFile \subseteq DOMAIN openTrades

\* no loop ticks before start() has reconciled the positions
C32_SyncBeforeTicks ==
    \A l \in {"scan", "realtime", "monitor"} : loops[l].pc # "idle" => Started

\* C32: a tracked position that is absent from the broker's open-trade list is
\* removed from live memory and from the persisted position snapshot by the tick that
\* observes it, and the same reconciliation runs once at startup and completes
\* before the first tick of any loop.
C32_AbsentPositionRemoved ==
    /\ []C32_SyncBeforeTicks
    /\ [][/\ C32_TickEnds => C32_Reconciled(C32_Snapshot)
          /\ C32_SyncEnds => C32_Reconciled(loops'["start"].snapshot)
          /\ Started => Started']_vars

\* C32: what holds: the reconciliation of start() comes before every tick and removes
\* the missing positions when it got the list, and so does a monitor tick that runs
\* to its end
C32_RemovedByCompletedTick ==
    /\ []C32_SyncBeforeTicks
    /\ [][/\ C32_TickCompletes => C32_Reconciled(C32_Snapshot)
          /\ C32_SyncEnds => C32_Reconciled(loops'["start"].snapshot)
          /\ Started => Started']_vars

\* C32: a monitor tick got a list without a tracked position, and the price of another
\* trade is awaited before the missing position is handled
C32_RemovalBehindPrice ==
    /\ Started /\ loops["monitor"].pc = "getPrice"
    /\ loops["start"].reason = ""
    /\ \E id \in DOMAIN bot.activePositions :
          /\ id \notin DOMAIN C32_Snapshot
          /\ id \in DOMAIN bot.positionsFile


\* the invocations of a loop's tick function that are in progress: the tick the timer's
\* callback awaits and, for scanMarket, the initial scan start() awaits
C33_InProgress(l) ==
    (IF loops[l].pc = "tick" THEN 1 ELSE 0)
    + (IF l = "scan" /\ loops["start"].pc = "initialScan" THEN 1 ELSE 0)

\* C33: no loop starts a tick while a previous tick of the same loop is still
\* running: at any time at most one scanMarket, at most one monitorPositions and at
\* most one real-time check is in progress, including the initial scan run at startup.
C33_OneTickAtATime == \A l \in TimerLoops : C33_InProgress(l) <= 1

\* C33: what holds: the ticks a loop's timer starts never overlap each other, and
\* the monitor and real-time loops start only after the initial scan has returned
C33_TimerTicksApart ==
    /\ \A l \in {"monitor", "realtime"} :
          loops["start"].pc = "initialScan" => loops[l].pc = "unset"
    /\ \A l \in TimerLoops : C33_InProgress(l) = 2 => l = "scan" /\ now >= SCAN_INTERVAL_MINUTES


\* the step is a check of the watchdog
C35_Check ==
    /\ loops["watchdog"].pc = "setInterval"
    /\ loops["watchdog"].due <= now
    /\ loops'["watchdog"] # loops["watchdog"]

\* no tick of any loop has returned without an error within the timeout
C35_NoSuccessInTime == now - checks > WATCHDOG_TIMEOUT

\* C35: the watchdog forces process exit at its next check exactly when no tick of
\* any loop has completed successfully within the timeout: a tick whose body failed
\* does not count as activity, and completion of a successful tick in any one loop
\* postpones the exit.
C35_ExitWithoutSuccess == [][C35_Check => (~Alive' <=> C35_NoSuccessInTime)]_vars

\* C35: what holds: the watchdog exits exactly when no tick of any loop has returned,
\* failed or not, within the timeout, and a successful tick always postpones the exit
C35_ExitWithoutReturn ==
    [][C35_Check => /\ ~Alive' <=> now - bot.lastActivityTime > WATCHDOG_TIMEOUT
                    /\ ~Alive' => C35_NoSuccessInTime]_vars

\* C35: a check of the watchdog found no successful tick within the timeout and let
\* the process run, because ticks whose bodies failed had returned since
C35_FailedTicksKeepAlive ==
    /\ Alive
    /\ loops["watchdog"].pc = "setInterval"
    /\ loops["watchdog"].due = now + WATCHDOG_CHECK_INTERVAL
    /\ C35_NoSuccessInTime


\* the tick of the loop has returned to its callback after its body failed, and the
\* finally block has queued the re-arming
C34_Failed(l) == loops[l].pc = "setImmediate" /\ loops[l].failed

\* the step is the return of a tick whose body failed
C34_FailedReturn(l) == loops[l].pc = "tick" /\ C34_Failed(l)'

\* C34: each loop re-arms itself after every tick whatever the tick's outcome: if a
\* tick body fails, the error is caught inside that tick, the other two loops keep
\* ticking, and the failed loop's next tick is eventually scheduled and run.
C34_RearmedAfterFailure ==
    /\ [][\A l \in TimerLoops :
            C34_FailedReturn(l) =>
               /\ Alive'
               /\ \A m \in TimerLoops \ {l} : loops'[m] = loops[m]]_vars
    /\ \A l \in TimerLoops :
          /\ C34_Failed(l) ~> (loops[l].pc = "setTimeout")
          /\ (loops[l].pc = "setTimeout") ~> (loops[l].pc = "tick")

\* C34: the monitor's tick failed and returned while a real-time tick is in progress
C34_MonitorFailedRealtimeTicks ==
    /\ Alive
    /\ C34_Failed("monitor")
    /\ loops["realtime"].pc = "tick"


\* the hour lies in the window [start, end), which wraps past midnight when start > end
C36_InWindow(startHour, endHour, currentHour) ==
    IF startHour > endHour THEN currentHour >= startHour \/ currentHour < endHour
    ELSE currentHour >= startHour /\ currentHour < endHour

\* the trading-hours gate has just answered
C36_Checked == call.op = "checkTradingHours"

\* a disallowed hour ends the tick with no order and no error
C36_SoftRejection ==
    ~call.tradingHours.allowed =>
        /\ loops["scan"] = IdleLoop
        /\ broker.orders = 0
        /\ call.tradingHours.reason = "Outside trading hours"

\* C36: for every start hour, end hour and current hour in 0..23, the trading-hours
\* gate allows entry exactly when the current hour lies in the configured window
\* [start, end), where a window with start > end wraps past midnight; a disallowed
\* hour yields a soft rejection (no order, no error).
C36_AllowedInWindow ==
    C36_Checked =>
        /\ call.tradingHours.allowed <=>
              C36_InWindow(config.TRADING_START_HOUR, config.TRADING_END_HOUR,
                           call.tradingHours.currentHour)
        /\ C36_SoftRejection

\* C36: what holds: the gate answers as the window says whenever the start hour and
\* the end hour differ, and a disallowed hour is a soft rejection
C36_AllowedInProperWindow ==
    C36_Checked =>
        /\ config.TRADING_START_HOUR # config.TRADING_END_HOUR =>
              (call.tradingHours.allowed <=>
                  C36_InWindow(config.TRADING_START_HOUR, config.TRADING_END_HOUR,
                               call.tradingHours.currentHour))
        /\ config.TRADING_START_HOUR = config.TRADING_END_HOUR => call.tradingHours.allowed
        /\ C36_SoftRejection


\* the step drops the position from activePositions
C37_Dropped(id) == id \in DOMAIN bot.activePositions /\ id \notin DOMAIN bot'.activePositions

\* the list of open trades of the monitor tick that takes the step
C37_List ==
    IF loops["monitor"].pc = "idle" THEN broker.openTrades ELSE loops["monitor"].snapshot

\* C37: the monitor never drops a position that is still open at the broker: under
\* every interleaving with an entry made by another loop while a monitor tick is
\* suspended or its open-trade response is in flight, a position recorded by
\* executeTrade is removed from activePositions only after the broker's open-trade
\* list really lacks it.
C37_DroppedOnlyWhenClosed ==
    [][\A id \in DOMAIN bot.activePositions :
          C37_Dropped(id) => id \notin DOMAIN broker.openTrades]_vars

\* C37: what holds: the monitor drops a position only when the list its tick received
\* lacks it
C37_DroppedOnlyWhenNotListed ==
    [][\A id \in DOMAIN bot.activePositions :
          C37_Dropped(id) => id \notin DOMAIN C37_List]_vars

\* C37: a trade is open at the broker with its stop, the monitor has dropped its
\* position, and every tick has ended
C37_OpenTradeUntracked ==
    /\ \A l \in DOMAIN loops : loops[l].pc = "idle"
    /\ \E id \in DOMAIN broker.openTrades :
          /\ id \notin DOMAIN bot.activePositions
          /\ id \notin DOMAIN bot.positionsFile


\* the step is the one in which executeTrade records the position of a trade that is
\* open at the broker
C38_Recorded(id) ==
    /\ id \notin DOMAIN bot.activePositions
    /\ id \in DOMAIN bot'.activePositions
    /\ id \in DOMAIN broker'.openTrades

\* C38: whenever executeTrade records a position, a stop-loss order is in force at the
\* broker for that trade and its price equals the recorded currentStopLoss, on every
\* path through the retry logic (first submission, widened retry, unprotected
\* submission with a failed or successful stop attach, failed post-fill stop
\* adjustment).
C38_RecordedStopInForce ==
    [][\A id \in DOMAIN bot'.activePositions :
          C38_Recorded(id) =>
             /\ broker'.openTrades[id].stopLoss # NULL
             /\ broker'.openTrades[id].stopLoss = bot'.activePositions[id].currentStopLoss]_vars

\* C38: what holds: the recorded stop is the stop in force at the broker whenever the
\* trade has one
C38_RecordedStopIsBrokerStop ==
    [][\A id \in DOMAIN bot'.activePositions :
          C38_Recorded(id) =>
             \/ broker'.openTrades[id].stopLoss = NULL
             \/ broker'.openTrades[id].stopLoss = bot'.activePositions[id].currentStopLoss]_vars

\* C38: a position is tracked with a stop while its trade is open at the broker
\* without any stop-loss order
C38_TrackedWithoutStop ==
    \E id \in DOMAIN bot.activePositions :
       /\ id \in DOMAIN broker.openTrades
       /\ broker.openTrades[id].stopLoss = NULL
       /\ bot.activePositions[id].currentStopLoss # NULL


\* the step is a call of the detector that finds the confirmation window of its
\* tracking record elapsed and confirms the breakout: it hands the breakout to the
\* refiner or emits the signal
C39_Confirms ==
    /\ loops["realtime"].pc = "getCandles"
    /\ breakoutStrategy.realtimeBreakoutDirection # "none"
    /\ breakoutStrategy'.realtimeBreakoutDirection = "none"
    /\ \/ /\ breakoutStrategy.realtimeMTFPending = "none"
          /\ breakoutStrategy'.realtimeMTFPending = breakoutStrategy.realtimeBreakoutDirection
       \/ loops'["realtime"].pc = "canOpenTrade"

\* a real-time tick that ran after the first detection of the record returned at a
\* gate and observed no price
C39_TickWithoutPrice ==
    /\ loops["gated"].time # NULL
    /\ loops["gated"].start = breakoutStrategy.realtimeBreakoutTime
    /\ loops["gated"].time > breakoutStrategy.realtimeBreakoutTime

\* C39: a real-time breakout is confirmed only if every real-time tick that ran
\* between the first detection and the confirmation observed the price outside the
\* channel on the tracked side: ticks that return early at a gate (cooldown, trading
\* hours, candle-close pending entry) while a tracking record exists do not let a later
\* tick confirm on the strength of the old start time alone.
C39_ConfirmedByObservedTicks == [][C39_Confirms => ~C39_TickWithoutPrice]_vars

\* C39: what holds: the tick that confirms observes the price outside the channel on
\* the tracked side, at least the confirmation window after the first detection
C39_ConfirmingTickObserves ==
    [][C39_Confirms =>
         /\ now - breakoutStrategy.realtimeBreakoutTime >= BREAKOUT_CONFIRMATION_SECONDS
         /\ IF breakoutStrategy.realtimeBreakoutDirection = "LONG"
            THEN loops["realtime"].currentPrice > breakoutStrategy.previousHigh
            ELSE loops["realtime"].currentPrice < breakoutStrategy.previousLow]_vars


---------------------------------------------------------------------------
(* Properties of a signal that a gate stopped (SpecDiscard)                *)

\* the detector confirms the tracked breakout and the tick goes on to the risk check
C40_Emits(d) ==
    /\ loops["realtime"].pc = "getCandles"
    /\ breakoutStrategy.realtimeBreakoutDirection = d
    /\ loops'["realtime"].pc = "canOpenTrade"
    /\ loops'["realtime"].signal = d

\* the tick that holds a signal returns at the risk check or at the size gate
C40_Stopped(d) ==
    \/ /\ loops["realtime"].pc = "canOpenTrade"
       /\ loops["realtime"].signal = d
       /\ loops'["realtime"] = IdleLoop
    \/ /\ loops["realtime"].pc = "getCandles"
       /\ breakoutStrategy.lastSignal # d
       /\ breakoutStrategy'.lastSignal = d
       /\ loops'["realtime"] = IdleLoop

\* no order was ever submitted, and the channel is the one the first scan stored
C40_NothingSubmitted ==
    /\ broker.orders = 0
    /\ broker.openTrades = NoPositions
    /\ bot.activePositions = NoPositions
    /\ breakoutStrategy.previousHigh \in {NULL, Usd(2010)}

\* lastSignal is written by nothing but an emission of the detector
C40_LastSignalIsEmission ==
    \A d \in {"LONG", "SHORT"} :
        breakoutStrategy.lastSignal # d /\ breakoutStrategy'.lastSignal = d
            => /\ loops["realtime"].pc = "getCandles"
               /\ breakoutStrategy.realtimeBreakoutDirection = d
               /\ loops'["realtime"].pc = "canOpenTrade" \/ loops'["realtime"] = IdleLoop

\* C40: an entry signal that a gate of its tick stopped (risk check, zero position
\* size) is discarded: its tracking record is cleared, no order is submitted, and
\* no later tick emits a signal for the same breakout again.  Here every signal is
\* stopped, the channel never moves and every tick sees the price above it, so the
\* detector emits a direction at most once: never when lastSignal already holds it.
C40_DiscardedForGood ==
    /\ []C40_NothingSubmitted
    /\ [][/\ C40_LastSignalIsEmission
          /\ \A d \in {"LONG", "SHORT"} :
                /\ C40_Stopped(d) =>
                      /\ breakoutStrategy'.realtimeBreakoutDirection = "none"
                      /\ breakoutStrategy'.realtimeMTFPending = "none"
                      /\ broker' = broker
                /\ C40_Emits(d) => breakoutStrategy.lastSignal # d]_vars

\* what holds: the stopped signal leaves no tracking record and no order
C40_StoppedIsCleared ==
    /\ []C40_NothingSubmitted
    /\ [][/\ C40_LastSignalIsEmission
          /\ \A d \in {"LONG", "SHORT"} :
                C40_Stopped(d) =>
                      /\ breakoutStrategy'.realtimeBreakoutDirection = "none"
                      /\ breakoutStrategy'.realtimeMTFPending = "none"
                      /\ broker' = broker]_vars

\* the detector tracks the breakout again after its signal was stopped
C40_TrackedAgain ==
    /\ breakoutStrategy.lastSignal = "LONG"
    /\ breakoutStrategy.realtimeBreakoutDirection = "LONG"
    /\ loops["realtime"].pc = "idle"


---------------------------------------------------------------------------
(* Properties of the trailing stop (SpecTrailing)                          *)

C11_IsLong == call.before.signal = "LONG"

\* the trailing stop is active on the tick of the call: target 1 hit, or the price
\* at least the activation distance beyond the entry price
C11_Active ==
    LET isBreakoutTrade == call.before.strategyName \in
            {"Breakout + ADX", "Breakout + ADX (Realtime)", "Breakout + ADX (Realtime MTF)"}
        activationDistance == pipsToPrice(IF isBreakoutTrade THEN BREAKOUT_TRAILING_ACTIVATION_PIPS
                                          ELSE TRAILING_ACTIVATION_PIPS)
        profitMove == IF C11_IsLong THEN call.price - call.before.entryPrice
                      ELSE call.before.entryPrice - call.price
    IN  /\ call.op = "monitorTrade"
        /\ (call.after.tp1Hit \/ profitMove >= activationDistance)

\* the best favourable price after the tick, and the candidate stop behind it
C11_Best ==
    IF C11_IsLong THEN Max({call.before.bestPrice, call.price})
    ELSE Min({call.before.bestPrice, call.price})
C11_Candidate ==
    IF C11_IsLong THEN C11_Best - pipsToPrice(TRAILING_STOP_DISTANCE_PIPS)
    ELSE C11_Best + pipsToPrice(TRAILING_STOP_DISTANCE_PIPS)
C11_Improves ==
    IF C11_IsLong THEN C11_Candidate > call.before.currentStopLoss
    ELSE C11_Candidate < call.before.currentStopLoss

\* C11: on a monitor tick of a position whose trailing stop is active, with the
\* broker accepting the tick's stop modification, the tracked stop after the tick is
\* the candidate (best favourable price minus, for a SHORT plus, the trail distance)
\* when the candidate improves the stop, and the stop of before the tick otherwise.
C11_CandidateApplied ==
    (C11_Active /\ call.ok) =>
        call.after.currentStopLoss =
            IF C11_Improves THEN C11_Candidate ELSE call.before.currentStopLoss

\* an active tick at or behind the best price leaves the stop where it was although
\* the candidate behind the best price improves it
C11_ImprovingCandidateNotApplied ==
    /\ C11_Active
    /\ call.ok
    /\ C11_Improves
    /\ call.after.currentStopLoss = call.before.currentStopLoss

\* the three ticks of the example, each from the state the one before it left: entry
\* 2000 LONG with activation $2.00 and trail $1.50, 2003 gives 2001.50, 2001 leaves
\* 2001.50, 2006 gives 2004.50
C11_ExampleSteps ==
    (/\ call.op = "monitorTrade"
     /\ call.ok
     /\ call.before.signal = "LONG"
     /\ call.before.strategyName = "Triple Confirmation"
     /\ call.before.entryPrice = Usd(2000))
    => /\ (call.before.bestPrice = Usd(2000) /\ call.price = Usd(2003))
          => call.after.currentStopLoss = Usd(2001) + 50
       /\ (call.before.bestPrice = Usd(2003) /\ call.before.currentStopLoss = Usd(2001) + 50
           /\ call.price = Usd(2001))
          => call.after.currentStopLoss = Usd(2001) + 50
       /\ (call.before.bestPrice = Usd(2003) /\ call.before.currentStopLoss = Usd(2001) + 50
           /\ call.price = Usd(2006))
          => call.after.currentStopLoss = Usd(2004) + 50

\* the last tick of the example happens
C11_ExampleLastTick ==
    /\ call.op = "monitorTrade"
    /\ call.before.strategyName = "Triple Confirmation"
    /\ call.before.bestPrice = Usd(2003)
    /\ call.before.currentStopLoss = Usd(2001) + 50
    /\ call.price = Usd(2006)
    /\ call.after.currentStopLoss = Usd(2004) + 50

=============================================================================
